---- MODULE Spec2Model ----
(***************************************************************************)
(* State-machine model of the graph storage engine and its transaction     *)
(* mechanism (class GraphDatabase, src/ADBMS/kk.py), of the catalog of     *)
(* databases (class DatabaseManager) and of the routes that call them      *)
(* (src/ADBMS/server.py).                                                  *)
(*                                                                         *)
(* Vertex identities are the naturals 1..MaxIds in order of allocation     *)
(* (uuid4 never hands out an identity twice).  Strings are sequences of    *)
(* ASCII codes so that str() and str.lower() are computed, not assumed.    *)
(* Floats are carried in tenths (15 is the float 1.5).                     *)
(*                                                                         *)
(* Every method is an operator from the instance (a record of its          *)
(* attributes, the two companion files and the identity counter) to the    *)
(* instance it leaves behind and the exception it raised, if any.  An      *)
(* action is one call of a method.  The warnings the methods print are     *)
(* left out: they change nothing.                                          *)
(*                                                                         *)
(*   Spec    every mutating operation and transaction command, in any      *)
(*           order, MaxSteps calls                                         *)
(*   SpecTx  the transaction commands around add_node and delete_node,     *)
(*           MaxTxSteps calls                                              *)
(*   SpecQ   vertex, edge and index mutations, MaxQSteps calls, with       *)
(*           query, find_path and find_by_name read in between             *)
(*   SpecM   the manager on a disk of registry and companion files: start, *)
(*           create, delete, rename, use, backup, restore, import and      *)
(*           mutations through the active instance, MaxMSteps calls        *)
(*   SpecT   MaxThreads requests (add_edge, delete_edge, delete_node) on   *)
(*           the active instance, served by threads that are switched      *)
(*           between the statements of the methods                         *)
(*                                                                         *)
(* The manager's methods are operators from the manager and the disk to    *)
(* the manager, the disk and the exception.  A companion file is missing,  *)
(* parseable JSON, text that is not JSON ("bad") or not text ("binary").   *)
(***************************************************************************)
EXTENDS Integers, Sequences, FiniteSets, TLC

\* ------------------------------------------------------------------ bounds
MaxIds == 3
MaxSteps == 4
MaxTxSteps == 6
MaxQSteps == 2
MaxMSteps == 4
MaxThreads == 2
MaxCSteps == 3

Ids == 1..MaxIds
Attrs == {"name", "age"}

\* ------------------------------------------------------------ scalar values
NoneV == [kind |-> "none", s |-> <<>>, n |-> 0]
StrV(s) == [kind |-> "str", s |-> s, n |-> 0]
IntV(n) == [kind |-> "int", s |-> <<>>, n |-> n]
FloatV(tenths) == [kind |-> "float", s |-> <<>>, n |-> tenths]
BoolV(b) == [kind |-> "bool", s |-> <<>>, n |-> IF b THEN 1 ELSE 0]
ListV == [kind |-> "list", s |-> <<>>, n |-> 0]

\* isinstance(val, (str, int, float, bool))
IsScalar(v) == v.kind \in {"str", "int", "float", "bool"}

\* isinstance(weight, (int, float)); bool is a subclass of int
IsNumber(v) == v.kind \in {"int", "float", "bool"}

RECURSIVE Digits(_)
Digits(n) == IF n < 10 THEN <<48 + n>> ELSE Digits(n \div 10) \o <<48 + (n % 10)>>

Abs(n) == IF n < 0 THEN -n ELSE n

Sign(n) == IF n < 0 THEN <<45>> ELSE <<>>

\* Python str(v)
str(v) ==
  CASE v.kind = "str" -> v.s
    [] v.kind = "int" -> Sign(v.n) \o Digits(Abs(v.n))
    [] v.kind = "float" -> Sign(v.n) \o Digits(Abs(v.n) \div 10) \o <<46>> \o Digits(Abs(v.n) % 10)
    [] v.kind = "bool" -> IF v.n = 1 THEN <<84, 114, 117, 101>> ELSE <<70, 97, 108, 115, 101>>
    [] v.kind = "none" -> <<78, 111, 110, 101>>
    [] OTHER -> <<91, 93>>

\* Python str.lower() on ASCII text
lower(s) == [i \in DOMAIN s |-> IF s[i] \in 65..90 THEN s[i] + 32 ELSE s[i]]

\* numeric value in tenths of int, float and bool
Num(v) == IF v.kind = "float" THEN v.n ELSE 10 * v.n

\* Python ==  on scalars and None (1 == 1.0 == True)
PyEq(x, y) ==
  IF IsNumber(x) /\ IsNumber(y) THEN Num(x) = Num(y)
  ELSE x.kind = y.kind /\ x.s = y.s

\* ---------------------------------------------------------------- dict ops
Put(d, k, v) == [x \in (DOMAIN d) \cup {k} |-> IF x = k THEN v ELSE d[x]]

Del(d, k) == [x \in (DOMAIN d) \ {k} |-> d[x]]

\* dict.get(k) with default None
Get(d, k) == IF k \in DOMAIN d THEN d[k] ELSE NoneV

\* dict.update(other)
Update(d, other) == [x \in (DOMAIN d) \cup (DOMAIN other) |-> IF x \in DOMAIN other THEN other[x] ELSE d[x]]

EmptyDict == [x \in {} |-> 0]

\* list(set): the identities of a set as a JSON array (the order Python gives
\* them is not specified; the array is only ever read back through set())
RECURSIVE list(_)
list(S) == IF S = {} THEN <<>>
           ELSE LET m == CHOOSE x \in S : \A y \in S : x <= y IN <<m>> \o list(S \ {m})

\* set(list): re-hydration of a JSON array
set(l) == {l[i] : i \in DOMAIN l}

\* db                   self.db: [nodes, indexes]
\* transaction          self.transaction: "None", "True" or "False" (stopped)
\* transaction_history  self.transaction_history: the snapshot stack
\* nodes_file           content of <base>_nodes.json
\* indexes_file         content of <base>_indexes.json
\* next_id              number of identities handed out so far
\* last                 the last call: method, outcome, vertex arguments, depth of
\*                      the snapshot stack before it, and for a read the query
\*                      text, case_sensitive and the value returned
\* pre                  self.db as it was before the last call
\* steps                number of calls made
\* manager              the DatabaseManager: registry, current_db, active_db_instance
\* disk                 registry.json and the file pairs, by base name
\* backed_up            the database, the backup file and the database's file pair
\*                      at the last backup_database that succeeded, while only
\*                      mutations and restores have followed it
\* cli_db               the command shell's local db: the instance it refers to
\*                      (NoInstance for None) and whether that object is still
\*                      manager.active_db_instance
\* threads              the request each serving thread handles, the statement
\*                      it is at and the locals of the method it runs
VARIABLES db, transaction, transaction_history, nodes_file, indexes_file, next_id, last, pre, steps,
          manager, disk, backed_up, cli_db, threads

vars == <<db, transaction, transaction_history, nodes_file, indexes_file, next_id, last, pre, steps,
          manager, disk, backed_up, cli_db, threads>>

\* the instance as one value, as the methods see it
Self == [db |-> db, transaction |-> transaction, transaction_history |-> transaction_history,
         nodes_file |-> nodes_file, indexes_file |-> indexes_file, next_id |-> next_id]

\* ------------------------------------------------------------- persistence
save_nodes(self) == [self EXCEPT !.nodes_file = self.db.nodes]

save_indexes(self) ==
  [self EXCEPT !.indexes_file =
     [attr \in DOMAIN self.db.indexes |->
        [k \in DOMAIN self.db.indexes[attr] |-> list(self.db.indexes[attr][k])]]]

\* save that writes the vertex file only
save_without_indexes(self) == save_nodes(self)

save(self) == save_indexes(save_nodes(self))

\* deepcopy(self.db) pushed when self.transaction is truthy
Snapshot(self) ==
  IF self.transaction = "True"
  THEN [self EXCEPT !.transaction_history = Append(self.transaction_history, self.db)]
  ELSE self

Raise(self, exc) == [self |-> self, res |-> exc]

Return(self) == [self |-> self, res |-> "ok"]

\* ----------------------------------------------------------- index manager
\* create_index without the test for an existing index: it rebuilds the index
create_index_rebuilds(self, attribute) ==
  IF attribute = "" THEN Raise(self, "ValueError")
  ELSE LET nodes == self.db.nodes
           holders == {id \in DOMAIN nodes : Get(nodes[id].value, attribute) # NoneV}
           built == [k \in {str(nodes[id].value[attribute]) : id \in holders} |->
                       {id \in holders : str(nodes[id].value[attribute]) = k}]
       IN Return(save([self EXCEPT !.db.indexes = Put(@, attribute, built)]))

create_index(self, attribute) ==
  IF attribute = "" THEN Raise(self, "ValueError")
  ELSE IF attribute \in DOMAIN self.db.indexes THEN Raise(self, "ValueError")
  ELSE LET nodes == self.db.nodes
           holders == {id \in DOMAIN nodes : Get(nodes[id].value, attribute) # NoneV}
           built == [k \in {str(nodes[id].value[attribute]) : id \in holders} |->
                       {id \in holders : str(nodes[id].value[attribute]) = k}]
       IN Return(save([self EXCEPT !.db.indexes = Put(@, attribute, built)]))

drop_index(self, attribute) ==
  IF attribute \notin DOMAIN self.db.indexes THEN Raise(self, "ValueError")
  ELSE Return(save([self EXCEPT !.db.indexes = Del(@, attribute)]))

\* _update_index that discards the old key but does not add the new one
_update_index_without_new_key(self, attribute, node_id, old_value, new_value) ==
  IF attribute \notin DOMAIN self.db.indexes THEN self
  ELSE LET idx == self.db.indexes[attribute]
           old_value_key == str(old_value)
           removed == IF old_value # NoneV /\ old_value_key \in DOMAIN idx
                      THEN LET rest == idx[old_value_key] \ {node_id}
                           IN IF rest = {} THEN Del(idx, old_value_key)
                              ELSE Put(idx, old_value_key, rest)
                      ELSE idx
       IN [self EXCEPT !.db.indexes[attribute] = removed]

_update_index(self, attribute, node_id, old_value, new_value) ==
  IF attribute \notin DOMAIN self.db.indexes THEN self
  ELSE LET idx == self.db.indexes[attribute]
           old_value_key == str(old_value)
           removed == IF old_value # NoneV /\ old_value_key \in DOMAIN idx
                      THEN LET rest == idx[old_value_key] \ {node_id}
                           IN IF rest = {} THEN Del(idx, old_value_key)
                              ELSE Put(idx, old_value_key, rest)
                      ELSE idx
           new_value_key == str(new_value)
           added == IF new_value # NoneV
                    THEN Put(removed, new_value_key,
                             (IF new_value_key \in DOMAIN removed THEN removed[new_value_key] ELSE {})
                               \cup {node_id})
                    ELSE removed
       IN [self EXCEPT !.db.indexes[attribute] = added]

\* ------------------------------------------------------------- vertex ops
\* the loop of add_node over the indexed attributes
RECURSIVE add_node_indexes(_, _, _, _)
add_node_indexes(self, attributes, new_id, value) ==
  IF attributes = {} THEN self
  ELSE LET attribute == CHOOSE x \in attributes : TRUE
       IN add_node_indexes(
            IF attribute \in DOMAIN value
            THEN _update_index(self, attribute, new_id, NoneV, value[attribute])
            ELSE self,
            attributes \ {attribute}, new_id, value)

add_node(self, value) ==
  IF DOMAIN value = {} THEN Raise(self, "ValueError")
  ELSE IF \E key \in DOMAIN value : ~IsScalar(value[key]) THEN Raise(self, "ValueError")
  ELSE LET pushed == Snapshot(self)
           new_id == self.next_id + 1
           stored == [pushed EXCEPT !.next_id = new_id,
                                    !.db.nodes = Put(@, new_id, [value |-> value, edges |-> EmptyDict])]
       IN Return(save(add_node_indexes(stored, DOMAIN stored.db.indexes, new_id, value)))

\* the loop of update_node over the indexed attributes
RECURSIVE update_node_indexes(_, _, _, _)
update_node_indexes(self, attributes, key, new_value) ==
  IF attributes = {} THEN self
  ELSE LET attribute == CHOOSE x \in attributes : TRUE
           old_val == Get(self.db.nodes[key].value, attribute)
           new_val == IF attribute \in DOMAIN new_value THEN new_value[attribute] ELSE old_val
       IN update_node_indexes(
            IF ~PyEq(old_val, new_val)
            THEN _update_index(self, attribute, key, old_val, new_val)
            ELSE self,
            attributes \ {attribute}, key, new_value)

\* update_node that replaces the attribute map instead of updating it
update_node_replaces_value(self, key, new_value) ==
  IF key \notin DOMAIN self.db.nodes THEN Raise(self, "KeyError")
  ELSE IF DOMAIN new_value = {} THEN Raise(self, "ValueError")
  ELSE IF \E attr \in DOMAIN new_value : ~IsScalar(new_value[attr]) THEN Raise(self, "ValueError")
  ELSE LET pushed == Snapshot(self)
           indexed == update_node_indexes(pushed, DOMAIN pushed.db.indexes, key, new_value)
       IN Return(save([indexed EXCEPT !.db.nodes[key].value = new_value]))

update_node(self, key, new_value) ==
  IF key \notin DOMAIN self.db.nodes THEN Raise(self, "KeyError")
  ELSE IF DOMAIN new_value = {} THEN Raise(self, "ValueError")
  ELSE IF \E attr \in DOMAIN new_value : ~IsScalar(new_value[attr]) THEN Raise(self, "ValueError")
  ELSE LET pushed == Snapshot(self)
           indexed == update_node_indexes(pushed, DOMAIN pushed.db.indexes, key, new_value)
       IN Return(save([indexed EXCEPT !.db.nodes[key].value = Update(@, new_value)]))

\* the loop of delete_node over the indexed attributes
RECURSIVE delete_node_indexes(_, _, _)
delete_node_indexes(self, attributes, key) ==
  IF attributes = {} THEN self
  ELSE LET attribute == CHOOSE x \in attributes : TRUE
           value == Get(self.db.nodes[key].value, attribute)
           value_key == lower(str(value))
           idx == self.db.indexes[attribute]
           rest == idx[value_key] \ {key}
       IN delete_node_indexes(
            IF value # NoneV /\ value_key \in DOMAIN idx
            THEN [self EXCEPT !.db.indexes[attribute] =
                    IF rest = {} THEN Del(idx, value_key) ELSE Put(idx, value_key, rest)]
            ELSE self,
            attributes \ {attribute}, key)

\* the loop of delete_node over the neighbours: drop key from each of them
delete_node_edges(nodes, key) ==
  [id \in DOMAIN nodes |->
     IF id \in DOMAIN nodes[key].edges
     THEN [nodes[id] EXCEPT !.edges = Del(@, key)]
     ELSE nodes[id]]

\* delete_node that leaves the neighbours' adjacency entries in place
delete_node_keeps_back_edges(self, key) ==
  IF key \notin DOMAIN self.db.nodes THEN Raise(self, "KeyError")
  ELSE LET pushed == Snapshot(self)
           indexed == delete_node_indexes(pushed, DOMAIN pushed.db.indexes, key)
       IN Return(save([indexed EXCEPT !.db.nodes = Del(@, key)]))

delete_node(self, key) ==
  IF key \notin DOMAIN self.db.nodes THEN Raise(self, "KeyError")
  ELSE LET pushed == Snapshot(self)
           indexed == delete_node_indexes(pushed, DOMAIN pushed.db.indexes, key)
           targets == DOMAIN indexed.db.nodes[key].edges
       \* del raises KeyError on a neighbour that does not list key back
       IN IF \E t \in targets : t \notin DOMAIN indexed.db.nodes \/ key \notin DOMAIN indexed.db.nodes[t].edges
          THEN Raise(indexed, "KeyError")
          ELSE Return(save([indexed EXCEPT !.db.nodes = Del(delete_node_edges(@, key), key)]))

\* --------------------------------------------------------------- edge ops
\* add_edge that writes the record on key1's side only
add_edge_one_sided(self, key1, key2, label, weight) ==
  IF key1 \notin DOMAIN self.db.nodes \/ key2 \notin DOMAIN self.db.nodes THEN Raise(self, "KeyError")
  ELSE IF key1 = key2 THEN Raise(self, "ValueError")
  ELSE IF key2 \in DOMAIN self.db.nodes[key1].edges THEN Raise(self, "ValueError")
  ELSE LET pushed == Snapshot(self)
           edge_props == [label |-> IF label # NoneV THEN StrV(str(label)) ELSE NoneV,
                          weight |-> weight]
       IN IF weight # NoneV /\ ~IsNumber(weight) THEN Raise(pushed, "ValueError")
          ELSE Return(save([pushed EXCEPT !.db.nodes[key1].edges = Put(@, key2, edge_props)]))

\* add_edge without the self-loop test
add_edge_allows_self_loop(self, key1, key2, label, weight) ==
  IF key1 \notin DOMAIN self.db.nodes \/ key2 \notin DOMAIN self.db.nodes THEN Raise(self, "KeyError")
  ELSE IF key2 \in DOMAIN self.db.nodes[key1].edges THEN Raise(self, "ValueError")
  ELSE LET pushed == Snapshot(self)
           edge_props == [label |-> IF label # NoneV THEN StrV(str(label)) ELSE NoneV,
                          weight |-> weight]
       IN IF weight # NoneV /\ ~IsNumber(weight) THEN Raise(pushed, "ValueError")
          ELSE Return(save([pushed EXCEPT !.db.nodes[key1].edges = Put(@, key2, edge_props),
                                          !.db.nodes[key2].edges = Put(@, key1, edge_props)]))

add_edge(self, key1, key2, label, weight) ==
  IF key1 \notin DOMAIN self.db.nodes \/ key2 \notin DOMAIN self.db.nodes THEN Raise(self, "KeyError")
  ELSE IF key1 = key2 THEN Raise(self, "ValueError")
  ELSE IF key2 \in DOMAIN self.db.nodes[key1].edges THEN Raise(self, "ValueError")
  ELSE LET pushed == Snapshot(self)
           edge_props == [label |-> IF label # NoneV THEN StrV(str(label)) ELSE NoneV,
                          weight |-> weight]
       IN IF weight # NoneV /\ ~IsNumber(weight) THEN Raise(pushed, "ValueError")
          ELSE Return(save([pushed EXCEPT !.db.nodes[key1].edges = Put(@, key2, edge_props),
                                          !.db.nodes[key2].edges = Put(@, key1, edge_props)]))

delete_edge(self, key1, key2) ==
  IF key1 \notin DOMAIN self.db.nodes \/ key2 \notin DOMAIN self.db.nodes THEN Raise(self, "KeyError")
  ELSE IF key2 \notin DOMAIN self.db.nodes[key1].edges THEN Raise(self, "ValueError")
  ELSE LET pushed == Snapshot(self)
           first == [pushed EXCEPT !.db.nodes[key1].edges = Del(@, key2)]
       IN IF key1 \notin DOMAIN first.db.nodes[key2].edges THEN Raise(first, "KeyError")
          ELSE Return(save([first EXCEPT !.db.nodes[key2].edges = Del(@, key1)]))

\* ------------------------------------------------------------ transactions
\* begin_transaction that only refuses while a transaction is active
begin_transaction_after_stop(self) ==
  IF self.transaction = "True" THEN Raise(self, "ValueError")
  ELSE Return([self EXCEPT !.transaction = "True", !.transaction_history = <<>>])

\* begin_transaction without the test for an open transaction
begin_transaction_reentrant(self) ==
  Return([self EXCEPT !.transaction = "True", !.transaction_history = <<>>])

begin_transaction(self) ==
  IF self.transaction # "None" THEN Raise(self, "ValueError")
  ELSE Return([self EXCEPT !.transaction = "True", !.transaction_history = <<>>])

\* commit_transaction that drops every snapshot instead of the newest one
commit_transaction_clears_stack(self) ==
  IF self.transaction # "True" THEN Raise(self, "ValueError")
  ELSE Return([self EXCEPT !.transaction_history = <<>>])

\* commit_transaction that ends the transaction when there is nothing to pop
commit_transaction_ends_when_empty(self) ==
  IF self.transaction # "True" THEN Raise(self, "ValueError")
  ELSE IF self.transaction_history # <<>>
       THEN Return([self EXCEPT !.transaction_history = SubSeq(@, 1, Len(@) - 1)])
       ELSE Return([self EXCEPT !.transaction = "None"])

commit_transaction(self) ==
  IF self.transaction # "True" THEN Raise(self, "ValueError")
  ELSE IF self.transaction_history # <<>>
       THEN Return([self EXCEPT !.transaction_history = SubSeq(@, 1, Len(@) - 1)])
       ELSE Return(self)

\* rollback_transaction that restores the newest snapshot but leaves it stacked
rollback_transaction_keeps_snapshot(self) ==
  IF self.transaction # "True" THEN Raise(self, "ValueError")
  ELSE IF self.transaction_history = <<>> THEN Return(self)
  ELSE Return(save([self EXCEPT !.db = self.transaction_history[Len(self.transaction_history)]]))

\* rollback_transaction that takes the oldest snapshot instead of the newest
rollback_transaction_oldest(self) ==
  IF self.transaction # "True" THEN Raise(self, "ValueError")
  ELSE IF self.transaction_history = <<>> THEN Return(self)
  ELSE Return(save([self EXCEPT !.db = self.transaction_history[1],
                                !.transaction_history = SubSeq(@, 2, Len(@))]))

rollback_transaction(self) ==
  IF self.transaction # "True" THEN Raise(self, "ValueError")
  ELSE IF self.transaction_history = <<>> THEN Return(self)
  ELSE Return(save([self EXCEPT !.db = self.transaction_history[Len(self.transaction_history)],
                                !.transaction_history = SubSeq(@, 1, Len(@) - 1)]))

\* stop_transaction that leaves the snapshot stack as it is
stop_transaction_keeps_stack(self) ==
  IF self.transaction # "True" THEN Raise(self, "ValueError")
  ELSE Return([self EXCEPT !.transaction = "False"])

stop_transaction(self) ==
  IF self.transaction # "True" THEN Raise(self, "ValueError")
  ELSE Return([self EXCEPT !.transaction = "False", !.transaction_history = <<>>])

\* ------------------------------------------------------------ text (str)
\* str.isspace() for one character
IsSpace(c) == c \in {9, 10, 11, 12, 13, 32}

\* Python str.upper() on ASCII text
upper(s) == [i \in DOMAIN s |-> IF s[i] \in 97..122 THEN s[i] - 32 ELSE s[i]]

\* s[i:] with i counted from 0
From(s, i) == SubSeq(s, i + 1, Len(s))

\* str.strip()
strip(s) ==
  LET solid == {i \in DOMAIN s : ~IsSpace(s[i])}
  IN IF solid = {} THEN <<>>
     ELSE SubSeq(s, CHOOSE i \in solid : \A j \in solid : i <= j,
                    CHOOSE i \in solid : \A j \in solid : i >= j)

startswith(s, prefix) == Len(s) >= Len(prefix) /\ SubSeq(s, 1, Len(prefix)) = prefix

endswith(s, suffix) == Len(s) >= Len(suffix) /\ From(s, Len(s) - Len(suffix)) = suffix

\* str.find(sub) + 1: the position of the first occurrence, 0 when there is none
find(s, sub) ==
  LET hits == {i \in 1..(Len(s) - Len(sub) + 1) : SubSeq(s, i, i + Len(sub) - 1) = sub}
  IN IF hits = {} THEN 0 ELSE CHOOSE i \in hits : \A j \in hits : i <= j

\* sub in s
contains(sub, s) == find(s, sub) # 0

\* s.split(sep, 1): one piece when sep does not occur, else two
split1(s, sep) ==
  LET i == find(s, sep)
  IN IF i = 0 THEN <<s>> ELSE <<SubSeq(s, 1, i - 1), From(s, i + Len(sep) - 1)>>

\* s.split(sep)
RECURSIVE split(_, _)
split(s, sep) ==
  LET parts == split1(s, sep)
  IN IF Len(parts) = 1 THEN parts ELSE <<parts[1]>> \o split(parts[2], sep)

\* re.split(r'\s+WORD\s+', s, flags=re.IGNORECASE): a separator is a maximal run
\* of blanks, the word in any case, and the run of blanks that follows it
RECURSIVE re_split(_, _)
re_split(s, word) ==
  LET n == Len(word)
      RunEnd(i) == CHOOSE j \in i..Len(s) :
                     /\ \A k \in i..j : IsSpace(s[k])
                     /\ (j = Len(s) \/ ~IsSpace(s[j + 1]))
      Match(i) == /\ IsSpace(s[i])
                  /\ RunEnd(i) + n + 1 <= Len(s)
                  /\ upper(SubSeq(s, RunEnd(i) + 1, RunEnd(i) + n)) = word
                  /\ IsSpace(s[RunEnd(i) + n + 1])
      starts == {i \in DOMAIN s : Match(i)}
  IN IF starts = {} THEN <<s>>
     ELSE LET i == CHOOSE x \in starts : \A y \in starts : x <= y
          IN <<SubSeq(s, 1, i - 1)>> \o re_split(From(s, RunEnd(RunEnd(i) + n + 1)), word)

\* int(s) for s an optional sign and decimal digits; anything else is a ValueError
int(s) ==
  LET body == IF s # <<>> /\ s[1] \in {43, 45} THEN Tail(s) ELSE s
      Val[i \in 0..Len(body)] == IF i = 0 THEN 0 ELSE 10 * Val[i - 1] + (body[i] - 48)
  IN IF body = <<>> \/ \E i \in DOMAIN body : body[i] \notin 48..57
     THEN [ok |-> FALSE, v |-> NoneV]
     ELSE [ok |-> TRUE, v |-> IntV(IF s[1] = 45 THEN -Val[Len(body)] ELSE Val[Len(body)])]

\* float(s) for s an optional sign, digits, a point and one digit (the model
\* carries floats in tenths); anything else is a ValueError
float(s) ==
  LET parts == split1(s, <<46>>)
      whole == int(parts[1])
      frac == int(parts[2])
  IN IF Len(parts) = 2 /\ whole.ok /\ Len(parts[2]) = 1 /\ frac.ok
     THEN [ok |-> TRUE, v |-> FloatV(IF parts[1][1] = 45 THEN 10 * whole.v.n - frac.v.n
                                        ELSE 10 * whole.v.n + frac.v.n)]
     ELSE [ok |-> FALSE, v |-> NoneV]

\* float(value) if '.' in value else int(value)
number(value) == IF contains(<<46>>, value) THEN float(value) ELSE int(value)

\* re.search(pattern, s) for a pattern made of an optional ^ and literal characters
re_search(pattern, s) ==
  IF pattern # <<>> /\ pattern[1] = 94 THEN startswith(s, Tail(pattern)) ELSE contains(pattern, s)

\* ---------------------------------------------------------------- queries
\* the operator tokens in the order the parser tries them: = > < >= <= !=
Operators == <<(<<61>>), (<<62>>), (<<60>>), (<<62, 61>>), (<<60, 61>>), (<<33, 61>>)>>

OpIn == <<73, 78>>

OpContains == <<67, 79, 78, 84, 65, 73, 78, 83>>

OpRegex == <<82, 69, 71, 69, 88>>

\* " WORD "
Spaced(word) == <<32>> \o word \o <<32>>

\* the text of an attribute name
Text(attribute) ==
  CASE attribute = "name" -> <<110, 97, 109, 101>>
    [] attribute = "age" -> <<97, 103, 101>>
    [] attribute = "ok" -> <<111, 107>>
    [] OTHER -> <<>>

\* the attribute of dict d that key names, "" when key not in d
Named(d, key) ==
  IF \E a \in DOMAIN d : Text(a) = key THEN CHOOSE a \in DOMAIN d : Text(a) = key ELSE ""

\* key.startswith("edge.") and key[5:] == "weight"
IsEdgeKey(key) == startswith(key, <<101, 100, 103, 101, 46>>)

IsWeightKey(key) == IsEdgeKey(key) /\ From(key, 5) = <<119, 101, 105, 103, 104, 116>>

Condition(key, op, value, values) == [key |-> key, op |-> op, value |-> value, values |-> values]

\* the body of the loop over and_conditions: one condition, or a ValueError
parse_condition(text) ==
  LET cond == strip(text)
      found == {i \in DOMAIN Operators : contains(Operators[i], cond)}
      Bad == [ok |-> FALSE, c |-> Condition(<<>>, <<>>, NoneV, <<>>)]
      Good(c) == [ok |-> TRUE, c |-> c]
      \* key, value = cond.split(word, 1) raises ValueError on a single piece
      Word(word) ==
        LET parts == split1(cond, Spaced(word))
        IN IF Len(parts) = 1 THEN Bad
           ELSE Good(Condition(strip(parts[1]), word, StrV(strip(parts[2])), <<>>))
  IN IF found # {}
     THEN LET op == Operators[CHOOSE i \in found : \A j \in found : i <= j]
              parts == split1(cond, op)
              key == strip(parts[1])
              value == strip(parts[2])
          IN IF IsWeightKey(key)
             THEN IF number(value).ok THEN Good(Condition(key, op, number(value).v, <<>>)) ELSE Bad
             ELSE Good(Condition(key, op, StrV(value), <<>>))
     ELSE IF contains(Spaced(OpIn), upper(cond))
     THEN LET parts == split1(cond, Spaced(OpIn))
              key == strip(parts[1])
              value == strip(parts[2])
              items == split(SubSeq(value, 2, Len(value) - 1), <<44>>)
              value_list == SelectSeq([i \in DOMAIN items |-> strip(items[i])], LAMBDA v : v # <<>>)
          IN IF Len(parts) = 1 THEN Bad
             ELSE IF ~(startswith(value, <<40>>) /\ endswith(value, <<41>>)) THEN Bad
             ELSE IF value_list = <<>> THEN Bad
             ELSE IF IsWeightKey(key)
             THEN IF \E i \in DOMAIN value_list : ~number(value_list[i]).ok THEN Bad
                  ELSE Good(Condition(key, OpIn, NoneV, [i \in DOMAIN value_list |-> number(value_list[i]).v]))
             ELSE Good(Condition(key, OpIn, NoneV, [i \in DOMAIN value_list |-> StrV(value_list[i])]))
     ELSE IF contains(Spaced(OpContains), upper(cond)) THEN Word(OpContains)
     ELSE IF contains(Spaced(OpRegex), upper(cond)) THEN Word(OpRegex)
     ELSE Bad

\* the parsing part of query: the OR-groups, each a sequence of conditions
parse(query_string) ==
  LET conditions_str == strip(From(query_string, 5))
      or_groups == re_split(conditions_str, <<79, 82>>)
      Conds(or_group) ==
        LET and_conditions == re_split(or_group, <<65, 78, 68>>)
        IN [i \in DOMAIN and_conditions |-> parse_condition(and_conditions[i])]
      \* one condition that raises ends the whole query
      Groups(parsed) ==
        IF \E g \in DOMAIN parsed : \E i \in DOMAIN parsed[g] : ~parsed[g][i].ok
        THEN [ok |-> FALSE, groups |-> <<>>]
        ELSE [ok |-> TRUE, groups |-> [g \in DOMAIN parsed |-> [i \in DOMAIN parsed[g] |-> parsed[g][i].c]]]
  IN IF ~startswith(lower(query_string), <<119, 104, 101, 114, 101>>) THEN [ok |-> FALSE, groups |-> <<>>]
     ELSE IF conditions_str = <<>> THEN [ok |-> FALSE, groups |-> <<>>]
     ELSE Groups([g \in DOMAIN or_groups |-> Conds(or_groups[g])])

Truth(b) == IF b THEN "True" ELSE "False"

\* x OP y for the six comparison tokens, on numbers in tenths
Compare(op, x, y) ==
  CASE op = Operators[1] -> x = y
    [] op = Operators[2] -> x > y
    [] op = Operators[3] -> x < y
    [] op = Operators[4] -> x >= y
    [] op = Operators[5] -> x <= y
    [] OTHER -> x # y

\* one attribute condition on one vertex, as both the index path and the full
\* scan evaluate it (cast_non_strings False): "True", "False" or the exception
node_condition(node_value, c, case_sensitive) ==
  LET a == Named(node_value, c.key)
      node_val == node_value[a]
      Fold(s) == IF case_sensitive THEN s ELSE lower(s)
  IN IF a = "" THEN "False"
     ELSE IF c.op \in {Operators[1], Operators[6]}
     \* isinstance(node_val, (int, float)) holds for bool: the bool branch is dead
     THEN IF IsNumber(node_val)
          THEN IF ~number(c.value.s).ok THEN "ValueError"
               ELSE Truth(Compare(c.op, Num(node_val), Num(number(c.value.s).v)))
          ELSE Truth((Fold(str(node_val)) = Fold(c.value.s)) = (c.op = Operators[1]))
     ELSE IF c.op \in {Operators[i] : i \in 2..5}
     THEN IF ~IsNumber(node_val) THEN "False"
          ELSE IF ~number(c.value.s).ok THEN "ValueError"
          ELSE Truth(Compare(c.op, Num(node_val), Num(number(c.value.s).v)))
     ELSE IF c.op = OpIn
     THEN IF IsNumber(node_val)
          THEN IF \E i \in DOMAIN c.values : ~number(c.values[i].s).ok THEN "ValueError"
               ELSE Truth(\E i \in DOMAIN c.values : PyEq(node_val, number(c.values[i].s).v))
          ELSE Truth(\E i \in DOMAIN c.values : Fold(str(node_val)) = Fold(c.values[i].s))
     ELSE IF c.op = OpContains
     THEN IF node_val.kind # "str" THEN "False"
          ELSE Truth(contains(Fold(c.value.s), Fold(node_val.s)))
     ELSE IF node_val.kind # "str" THEN "False"
          ELSE Truth(re_search(c.value.s, node_val.s))

\* one edge condition on one edge record that carries the property: "True",
\* "False", the exception raised, or "Break" (the condition fails for the vertex)
edge_matches(edge_val, c, case_sensitive) ==
  LET Fold(s) == IF case_sensitive THEN s ELSE lower(s)
      \* '.' in value, value.lower() on a literal that parsing made a number
      literal == c.value.kind = "str"
  IN IF c.op \in {Operators[1], Operators[6]}
     THEN IF IsNumber(edge_val)
          THEN IF ~literal THEN "TypeError"
               ELSE IF ~number(c.value.s).ok THEN "False"
               ELSE Truth(Compare(c.op, Num(edge_val), Num(number(c.value.s).v)))
          ELSE IF ~literal THEN (IF case_sensitive THEN Truth(c.op # Operators[1]) ELSE "AttributeError")
          ELSE Truth((Fold(str(edge_val)) = Fold(c.value.s)) = (c.op = Operators[1]))
     ELSE IF c.op \in {Operators[i] : i \in 2..5}
     THEN IF ~IsNumber(edge_val) THEN "False"
          ELSE IF ~literal THEN "TypeError"
          ELSE IF ~number(c.value.s).ok THEN "ValueError"
          ELSE Truth(Compare(c.op, Num(edge_val), Num(number(c.value.s).v)))
     ELSE IF c.op = OpIn
     THEN IF IsNumber(edge_val)
          THEN IF c.values[1].kind # "str" THEN "TypeError"
               ELSE IF \E i \in DOMAIN c.values : ~number(c.values[i].s).ok THEN "ValueError"
               ELSE Truth(\E i \in DOMAIN c.values : PyEq(edge_val, number(c.values[i].s).v))
          ELSE IF c.values[1].kind # "str" THEN (IF case_sensitive THEN "False" ELSE "AttributeError")
          ELSE Truth(\E i \in DOMAIN c.values : Fold(str(edge_val)) = Fold(c.values[i].s))
     ELSE IF c.op = OpContains
     THEN IF edge_val.kind # "str" THEN "Break"
          ELSE Truth(contains(Fold(c.value.s), Fold(edge_val.s)))
     ELSE IF edge_val.kind # "str" THEN "False"
          ELSE Truth(re_search(c.value.s, edge_val.s))

\* the loop over edges.values() for one edge condition
RECURSIVE edge_condition(_, _, _, _)
edge_condition(edges, targets, c, case_sensitive) ==
  IF targets = <<>> THEN "False"
  ELSE LET edge_data == edges[Head(targets)]
           edge_prop == From(c.key, 5)
           edge_val == IF edge_prop = <<119, 101, 105, 103, 104, 116>> THEN edge_data.weight
                       ELSE IF edge_prop = <<108, 97, 98, 101, 108>> THEN edge_data.label
                       ELSE NoneV
           \* an edge without the property, or one that fails, leaves the loop running
           Outcome(m) == IF m = "False" THEN edge_condition(edges, Tail(targets), c, case_sensitive)
                         ELSE IF m = "Break" THEN "False"
                         ELSE m
       IN Outcome(IF edge_val = NoneV THEN "False" ELSE edge_matches(edge_val, c, case_sensitive))

\* the loop over the conditions of a group for one vertex (matches_and)
RECURSIVE matches_and(_, _, _, _)
matches_and(node, conditions, case_sensitive, scan) ==
  IF conditions = <<>> THEN "True"
  ELSE LET c == Head(conditions)
           Outcome(m) == IF m = "True" THEN matches_and(node, Tail(conditions), case_sensitive, scan) ELSE m
       IN Outcome(IF scan /\ IsEdgeKey(c.key)
                  THEN edge_condition(node.edges, list(DOMAIN node.edges), c, case_sensitive)
                  ELSE node_condition(node.value, c, case_sensitive))

\* the planning loop: every condition is = or IN on an indexed attribute
UsesIndex(indexes, conditions) ==
  \A i \in DOMAIN conditions :
    /\ ~IsEdgeKey(conditions[i].key)
    /\ conditions[i].op \in {Operators[1], OpIn}
    /\ Named(indexes, conditions[i].key) # ""

\* candidate_nodes: the intersection of the index look-ups of the conditions
candidate_nodes(indexes, conditions, case_sensitive) ==
  LET Key(v) == IF case_sensitive THEN v.s ELSE lower(v.s)
      Probe(c, v) == LET idx == indexes[Named(indexes, c.key)]
                     IN IF Key(v) \in DOMAIN idx THEN idx[Key(v)] ELSE {}
      Nodes(c) == IF c.op = OpIn THEN UNION {Probe(c, c.values[i]) : i \in DOMAIN c.values}
                  ELSE Probe(c, c.value)
  IN {id \in Ids : \A i \in DOMAIN conditions : id \in Nodes(conditions[i])}

\* run_group without the seen_ids test
RECURSIVE run_group_without_seen(_, _, _, _, _, _)
run_group_without_seen(nodes, conditions, case_sensitive, scan, visit, acc) ==
  IF visit = <<>> \/ acc.res # "ok" THEN acc
  ELSE LET node_id == Head(visit)
           Outcome(m) == IF m = "True" THEN [acc EXCEPT !.out = Append(@, node_id)]
                         ELSE IF m = "False" THEN acc
                         ELSE [res |-> m, out |-> <<>>]
       IN run_group_without_seen(nodes, conditions, case_sensitive, scan, Tail(visit),
            IF node_id \notin DOMAIN nodes THEN [res |-> "KeyError", out |-> <<>>]
            ELSE Outcome(matches_and(nodes[node_id], conditions, case_sensitive, scan)))

\* one OR-group over the vertices in visiting order: acc is the results so far
RECURSIVE run_group(_, _, _, _, _, _)
run_group(nodes, conditions, case_sensitive, scan, visit, acc) ==
  IF visit = <<>> \/ acc.res # "ok" THEN acc
  ELSE LET node_id == Head(visit)
           seen == \E i \in DOMAIN acc.out : acc.out[i] = node_id
           Outcome(m) == IF m = "True" THEN [acc EXCEPT !.out = Append(@, node_id)]
                         ELSE IF m = "False" THEN acc
                         ELSE [res |-> m, out |-> <<>>]
       IN run_group(nodes, conditions, case_sensitive, scan, Tail(visit),
            IF seen THEN acc
            ELSE IF node_id \notin DOMAIN nodes THEN [res |-> "KeyError", out |-> <<>>]
            ELSE Outcome(matches_and(nodes[node_id], conditions, case_sensitive, scan)))

\* the loop over or_conditions
RECURSIVE run_groups(_, _, _, _, _)
run_groups(self, groups, case_sensitive, order, acc) ==
  IF groups = <<>> \/ acc.res # "ok" THEN acc
  ELSE LET conditions == Head(groups)
           scan == ~UsesIndex(self.db.indexes, conditions)
           found == candidate_nodes(self.db.indexes, conditions, case_sensitive)
           visit == IF scan THEN list(DOMAIN self.db.nodes)
                    ELSE SelectSeq(order, LAMBDA id : id \in found)
       IN run_groups(self, Tail(groups), case_sensitive, order,
                     run_group(self.db.nodes, conditions, case_sensitive, scan, visit, acc))

\* ----------------------------------------------------------------- paths
\* find_path's loop taking the newest queue entry (queue.pop()) instead of the oldest
RECURSIVE find_path_loop_newest_first(_, _, _, _, _)
find_path_loop_newest_first(nodes, end_key, queue, visited, order) ==
  IF queue = <<>> THEN <<>>
  ELSE LET current_key == queue[Len(queue)].key
           path == queue[Len(queue)].path
           others == SubSeq(queue, 1, Len(queue) - 1)
           neighbors == SelectSeq(order, LAMBDA id : id \in DOMAIN nodes[current_key].edges)
           fresh == SelectSeq(neighbors, LAMBDA id : id \notin visited \cup {current_key})
       IN IF current_key = end_key THEN path
          ELSE IF current_key \in visited THEN find_path_loop_newest_first(nodes, end_key, others, visited, order)
          ELSE find_path_loop_newest_first(nodes, end_key,
                 others \o [i \in DOMAIN fresh |-> [key |-> fresh[i], path |-> Append(path, fresh[i])]],
                 visited \cup {current_key}, order)

\* the while loop of find_path: queue holds (current_key, path) pairs
RECURSIVE find_path_loop(_, _, _, _, _)
find_path_loop(nodes, end_key, queue, visited, order) ==
  IF queue = <<>> THEN <<>>
  ELSE LET current_key == Head(queue).key
           path == Head(queue).path
           neighbors == SelectSeq(order, LAMBDA id : id \in DOMAIN nodes[current_key].edges)
           fresh == SelectSeq(neighbors, LAMBDA id : id \notin visited \cup {current_key})
       IN IF current_key = end_key THEN path
          ELSE IF current_key \in visited THEN find_path_loop(nodes, end_key, Tail(queue), visited, order)
          ELSE find_path_loop(nodes, end_key,
                 Tail(queue) \o [i \in DOMAIN fresh |-> [key |-> fresh[i], path |-> Append(path, fresh[i])]],
                 visited \cup {current_key}, order)

\* find_path(start_key, end_key): the path found, <<>> for None; order is the
\* order in which adjacency maps are iterated
find_path(self, start_key, end_key, order) ==
  IF start_key \notin DOMAIN self.db.nodes \/ end_key \notin DOMAIN self.db.nodes
  THEN [res |-> "KeyError", out |-> <<>>]
  ELSE IF start_key = end_key THEN [res |-> "ok", out |-> <<start_key>>]
  ELSE [res |-> "ok",
        out |-> find_path_loop(self.db.nodes, end_key, <<[key |-> start_key, path |-> <<start_key>>]>>, {}, order)]

\* find_by_name(name) for a str name: the set in the name index at name.lower(),
\* or the scan over the vertices with a truthy name (the order of the list
\* returned is the iteration order of a set or a dict; it is given sorted)
find_by_name(self, name) ==
  IF "name" \in DOMAIN self.db.indexes
  THEN LET idx == self.db.indexes["name"]
       IN [res |-> "ok", out |-> list(IF lower(name) \in DOMAIN idx THEN idx[lower(name)] ELSE {})]
  ELSE LET nodes == self.db.nodes
           \* if node_name: None, "", 0, 0.0 and False are skipped
           named == {id \in DOMAIN nodes :
                       LET node_name == Get(nodes[id].value, "name")
                       IN IF node_name.kind = "str" THEN node_name.s # <<>> ELSE node_name.n # 0}
       IN \* node_name.lower() on a number or a bool
          IF \E id \in named : nodes[id].value["name"].kind # "str"
          THEN [res |-> "AttributeError", out |-> <<>>]
          ELSE [res |-> "ok",
                out |-> list({id \in named : contains(lower(name), lower(nodes[id].value["name"].s))})]

\* ---------------------------------------------------------------- inputs
Al == StrV(<<65, 108>>)

Bo == StrV(<<98, 111>>)

\* the attribute maps handed to add_node
NodeInputs ==
  {EmptyDict, [a \in {"name"} |-> Al], [a \in {"age"} |-> IntV(1)], [a \in {"age"} |-> ListV]}

\* the attribute maps handed to update_node
UpdateInputs ==
  {EmptyDict, [a \in {"name"} |-> Bo], [a \in {"age"} |-> BoolV(TRUE)], [a \in {"age"} |-> ListV]}

\* the (label, weight) pairs handed to add_edge
EdgeInputs ==
  {[label |-> NoneV, weight |-> NoneV],
   [label |-> StrV(<<107>>), weight |-> IntV(2)],
   [label |-> StrV(<<107>>), weight |-> StrV(<<104>>)]}

IndexInputs == Attrs \cup {""}

\* companion files left by an earlier session: none, or two joined vertices
StoredNodes ==
  {EmptyDict,
   [id \in {1, 2} |->
      [value |-> IF id = 1 THEN [a \in {"name"} |-> Al] ELSE [a \in {"age"} |-> IntV(1)],
       edges |-> [t \in {3 - id} |-> [label |-> StrV(<<107>>), weight |-> IntV(2)]]]]}

\* -------------------------------------------------------- inputs of SpecQ
\* the orders in which a set or a dict of identities may be iterated
Orders == {o \in [1..MaxIds -> Ids] : \A i, j \in 1..MaxIds : i # j => o[i] # o[j]}

\* the attribute maps handed to add_node and update_node between reads
QueryNodeInputs ==
  {[a \in {"age", "ok"} |-> IF a = "age" THEN IntV(2) ELSE BoolV(TRUE)],
   [a \in {"name", "age"} |-> IF a = "name" THEN Bo ELSE IntV(1)]}

QueryUpdateInputs == {[a \in {"age"} |-> IntV(2)], [a \in {"name"} |-> IntV(7)]}

\* the names handed to find_by_name: Al, b
FindInputs == {<<65, 108>>, <<98>>}

QueryIndexInputs == {"name", "age", "ok"}

\* "WHERE <body>"
Where(body) == <<87, 72, 69, 82, 69, 32>> \o body

\* "<left> <word> <right>"
Join(left, word, right) == left \o Spaced(word) \o right

\* "(<x>, <y>)"
Pair(x, y) == <<40>> \o x \o <<44, 32>> \o y \o <<41>>

\* age OP 2 for each of the six operators, and age = 1
Comparisons ==
  {[text |-> Where(Join(Text("age"), Operators[i], Digits(2))), op |-> Operators[i], n |-> 2] : i \in 1..6}
    \cup {[text |-> Where(Join(Text("age"), Operators[1], Digits(1))), op |-> Operators[1], n |-> 1]}

\* queries made of = and IN conditions on vertex attributes
Lookups ==
  {Where(Join(Text("name"), Operators[1], Al.s)),
   Where(Join(Text("age"), Operators[1], Digits(1))),
   Where(Join(Text("name"), OpIn, Pair(Al.s, Bo.s))),
   Where(Join(Text("age"), OpIn, Pair(Digits(1), Digits(2))))}

\* edge.weight OP n
EdgeQueries ==
  {[text |-> Where(Join(<<101, 100, 103, 101, 46, 119, 101, 105, 103, 104, 116>>, Operators[i], Digits(n))), op |-> Operators[i], n |-> n] :
     i \in {1, 2}, n \in {1, 2}}

\* ok = literal and ok != literal for the literals true and False
BoolQueries ==
  {[text |-> Where(Join(Text("ok"), Operators[i], literal)), op |-> Operators[i], literal |-> literal] :
     i \in {1, 6}, literal \in {lower(str(BoolV(TRUE))), str(BoolV(FALSE))}}

\* the same query with an operator word in upper case and in another case
WordQueries ==
  LET Both(word, other) ==
        LET Make(w) ==
              CASE word = OpIn -> Where(Join(Text("age"), w, Pair(Digits(1), Digits(2))))
                [] word = OpContains -> Where(Join(Text("name"), w, <<108>>))
                [] word = OpRegex -> Where(Join(Text("name"), w, <<94, 65>>))
                [] OTHER -> Where(Join(Join(Text("age"), Operators[2], Digits(1)), w,
                                       Join(Text("age"), Operators[3], Digits(3))))
        IN [std |-> Make(word), alt |-> Make(other)]
  IN {Both(<<79, 82>>, <<111, 114>>), Both(<<65, 78, 68>>, <<65, 110, 100>>),
      Both(OpIn, lower(OpIn)), Both(OpContains, lower(OpContains)), Both(OpRegex, <<82, 101, 103, 101, 120>>)}

\* queries of two OR-groups that can both match one vertex
GroupQueries ==
  {[left |-> Join(Text("age"), Operators[1], Digits(2)), right |-> Join(Text("age"), Operators[2], Digits(1))],
   [left |-> Join(Text("name"), Operators[1], Bo.s), right |-> Join(Text("age"), Operators[1], Digits(1))]}

TwoGroups(g) == Where(Join(g.left, <<79, 82>>, g.right))

Queries ==
  {c.text : c \in Comparisons} \cup Lookups \cup {c.text : c \in EdgeQueries}
    \cup {c.text : c \in BoolQueries} \cup {w.std : w \in WordQueries}
    \cup {w.alt : w \in WordQueries} \cup {TwoGroups(g) : g \in GroupQueries}

\* parse on the query texts of SpecQ, tabulated
ParsedQueries == [query_string \in Queries |-> parse(query_string)]

\* query(query_string, case_sensitive=...): the identities of the rows returned,
\* or the exception raised; order is the order in which sets of identities are
\* iterated, which Python leaves open
query(self, query_string, case_sensitive, order) ==
  LET Run(parsed) ==
        IF ~parsed.ok THEN [res |-> "ValueError", out |-> <<>>]
        ELSE run_groups(self, parsed.groups, case_sensitive, order, [res |-> "ok", out |-> <<>>])
  IN Run(IF query_string \in Queries THEN ParsedQueries[query_string] ELSE parse(query_string))

\* ------------------------------------------------------------- construction
\* GraphDatabase.__init__ on a readable pair of companion files
GraphDatabase(nodes_data, indexes_data) ==
  [db |-> [nodes |-> nodes_data,
           indexes |-> [attr \in DOMAIN indexes_data |->
                          [k \in DOMAIN indexes_data[attr] |-> set(indexes_data[attr][k])]]],
   transaction |-> "None",
   transaction_history |-> <<>>,
   nodes_file |-> nodes_data,
   indexes_file |-> indexes_data,
   next_id |-> Cardinality(DOMAIN nodes_data)]

Neighbors(d, v) == DOMAIN d.nodes[v].edges

\* ------------------------------------------------------- database manager
\* a file on disk: kind "missing" (os.path.exists is false), "bad" (json.load
\* raises JSONDecodeError), "binary" (reading it raises UnicodeDecodeError, a
\* ValueError) or "json" with its data
File(kind, data) == [kind |-> kind, data |-> data]

\* self.active_db_instance = None
NoInstance ==
  [file |-> "", db |-> [nodes |-> EmptyDict, indexes |-> EmptyDict],
   transaction |-> "None", transaction_history |-> <<>>]

\* GraphDatabase.__init__(file) on the files of a disk: the instance, the files
\* it leaves (a companion file that is absent or not JSON is written anew,
\* empty) and the exception that escapes it, if any
GraphDatabase__init__(files, file) ==
  LET nodes_part == files[file].nodes
      indexes_part == files[file].indexes
      nodes_data == IF nodes_part.kind = "json" THEN nodes_part.data ELSE EmptyDict
      indexes_data == IF indexes_part.kind = "json" THEN indexes_part.data ELSE EmptyDict
      self == GraphDatabase(nodes_data, indexes_data)
      instance == [file |-> file, db |-> self.db, transaction |-> self.transaction,
                   transaction_history |-> self.transaction_history]
  IN IF nodes_part.kind = "binary"
     THEN [files |-> files, instance |-> instance, res |-> "ValueError"]
     ELSE IF indexes_part.kind = "binary"
     THEN [files |-> [files EXCEPT ![file].nodes = File("json", nodes_data)],
           instance |-> instance, res |-> "ValueError"]
     ELSE [files |-> [files EXCEPT ![file] = [nodes |-> File("json", nodes_data),
                                                indexes |-> File("json", indexes_data)]],
           instance |-> instance, res |-> "ok"]

_save_registry(self, fs) == [fs EXCEPT !.registry_file = File("json", self.registry)]

\* DatabaseManager.__init__ on a disk: _load_registry, the validation loop (each
\* entry is opened, which may write its files) and the pruning
DatabaseManager__init__(fs) ==
  LET loaded == IF fs.registry_file.kind = "json" THEN fs.registry_file.data ELSE EmptyDict
      present == {db_name \in DOMAIN loaded :
                    \/ fs.files[loaded[db_name]].nodes.kind # "missing"
                    \/ fs.files[loaded[db_name]].indexes.kind # "missing"}
      valid == {db_name \in present : GraphDatabase__init__(fs.files, loaded[db_name]).res = "ok"}
      files == [file \in DOMAIN fs.files |->
                  IF \E db_name \in present : loaded[db_name] = file
                  THEN GraphDatabase__init__(fs.files, file).files[file]
                  ELSE fs.files[file]]
      self == [registry |-> [db_name \in valid |-> loaded[db_name]],
               current_db |-> "", active_db_instance |-> NoInstance]
      opened == [fs EXCEPT !.files = files]
  IN [self |-> self,
      disk |-> IF valid # DOMAIN loaded THEN _save_registry(self, opened) ELSE opened,
      res |-> "ok"]

\* the file name is f"{db_name}.json": the base name of the files is db_name
create_database(self, fs, db_name) ==
  IF db_name \in DOMAIN self.registry THEN [self |-> self, disk |-> fs, res |-> "ValueError"]
  ELSE LET added == [self EXCEPT !.registry = Put(@, db_name, db_name)]
           saved == _save_registry(added, fs)
           opened == GraphDatabase__init__(saved.files, db_name)
       IN [self |-> added, disk |-> [saved EXCEPT !.files = opened.files], res |-> opened.res]

\* delete_database that removes the vertices file only
delete_database_keeps_indexes(self, fs, db_name) ==
  IF db_name \notin DOMAIN self.registry THEN [self |-> self, disk |-> fs, res |-> "ValueError"]
  ELSE LET file_name == self.registry[db_name]
           removed == [fs EXCEPT !.files[file_name].nodes = File("missing", EmptyDict)]
           dropped == [self EXCEPT !.registry = Del(@, db_name)]
       IN [self |-> IF self.current_db = db_name
                    THEN [dropped EXCEPT !.current_db = "", !.active_db_instance = NoInstance]
                    ELSE dropped,
           disk |-> _save_registry(dropped, removed),
           res |-> "ok"]

delete_database(self, fs, db_name) ==
  IF db_name \notin DOMAIN self.registry THEN [self |-> self, disk |-> fs, res |-> "ValueError"]
  ELSE LET file_name == self.registry[db_name]
           removed == [fs EXCEPT !.files[file_name] =
                         [nodes |-> File("missing", EmptyDict), indexes |-> File("missing", EmptyDict)]]
           dropped == [self EXCEPT !.registry = Del(@, db_name)]
       IN [self |-> IF self.current_db = db_name
                    THEN [dropped EXCEPT !.current_db = "", !.active_db_instance = NoInstance]
                    ELSE dropped,
           disk |-> _save_registry(dropped, removed),
           res |-> "ok"]

\* os.rename moves each companion file of old_name that exists
update_database(self, fs, old_name, new_name) ==
  IF old_name \notin DOMAIN self.registry THEN [self |-> self, disk |-> fs, res |-> "ValueError"]
  ELSE IF new_name \in DOMAIN self.registry THEN [self |-> self, disk |-> fs, res |-> "ValueError"]
  ELSE LET old_file == self.registry[old_name]
           moved == [file \in DOMAIN fs.files |->
                       [part \in {"nodes", "indexes"} |->
                          IF old_file = new_name \/ fs.files[old_file][part].kind = "missing"
                          THEN fs.files[file][part]
                          ELSE IF file = new_name THEN fs.files[old_file][part]
                          ELSE IF file = old_file THEN File("missing", EmptyDict)
                          ELSE fs.files[file][part]]]
           renamed == [self EXCEPT !.registry = Del(Put(@, new_name, new_name), old_name)]
       IN [self |-> IF self.current_db = old_name
                    THEN [renamed EXCEPT !.current_db = new_name]
                    ELSE renamed,
           disk |-> _save_registry(renamed, [fs EXCEPT !.files = moved]),
           res |-> "ok"]

\* current_db is assigned before the instance is opened
use_database(self, fs, db_name) ==
  IF db_name \notin DOMAIN self.registry THEN [self |-> self, disk |-> fs, res |-> "ValueError"]
  ELSE LET opened == GraphDatabase__init__(fs.files, self.registry[db_name])
       IN [self |-> IF opened.res = "ok"
                    THEN [self EXCEPT !.current_db = db_name, !.active_db_instance = opened.instance]
                    ELSE [self EXCEPT !.current_db = db_name],
           disk |-> [fs EXCEPT !.files = opened.files],
           res |-> opened.res]

\* backup_database that copies the vertices file only
backup_database_without_indexes(self, fs, db_name, backup_file) ==
  IF db_name \notin DOMAIN self.registry THEN [self |-> self, disk |-> fs, res |-> "ValueError"]
  ELSE LET source == fs.files[self.registry[db_name]]
           target == fs.files[backup_file]
       IN IF source.nodes.kind = "missing" THEN [self |-> self, disk |-> fs, res |-> "ValueError"]
          ELSE IF target.nodes.kind # "missing" \/ target.indexes.kind # "missing"
          THEN [self |-> self, disk |-> fs, res |-> "ValueError"]
          ELSE [self |-> self,
                disk |-> [fs EXCEPT !.files[backup_file] = [source EXCEPT !.indexes = File("missing", EmptyDict)]],
                res |-> "ok"]

\* backup_file is the base name of the pair <base>_nodes.json, <base>_indexes.json
backup_database(self, fs, db_name, backup_file) ==
  IF db_name \notin DOMAIN self.registry THEN [self |-> self, disk |-> fs, res |-> "ValueError"]
  ELSE LET source == fs.files[self.registry[db_name]]
           target == fs.files[backup_file]
       IN IF source.nodes.kind = "missing" THEN [self |-> self, disk |-> fs, res |-> "ValueError"]
          ELSE IF target.nodes.kind # "missing" \/ target.indexes.kind # "missing"
          THEN [self |-> self, disk |-> fs, res |-> "ValueError"]
          ELSE [self |-> self,
                disk |-> [fs EXCEPT !.files[backup_file] = source],
                res |-> "ok"]

\* restore_database that copies before it validates
restore_database_copies_first(self, fs, db_name, backup_file) ==
  IF db_name \notin DOMAIN self.registry THEN [self |-> self, disk |-> fs, res |-> "ValueError"]
  ELSE IF fs.files[backup_file].nodes.kind = "missing"
  THEN [self |-> self, disk |-> fs, res |-> "ValueError"]
  ELSE LET db_file == self.registry[db_name]
           backup == fs.files[backup_file]
           copied == [fs.files EXCEPT ![db_file] = backup]
           opened == GraphDatabase__init__(copied, db_file)
       IN IF backup.nodes.kind # "json" \/ backup.indexes.kind \notin {"json", "missing"}
          THEN [self |-> self, disk |-> [fs EXCEPT !.files = copied], res |-> "ValueError"]
          ELSE IF self.current_db # db_name
          THEN [self |-> self, disk |-> [fs EXCEPT !.files = copied], res |-> "ok"]
          ELSE [self |-> IF opened.res = "ok" THEN [self EXCEPT !.active_db_instance = opened.instance]
                         ELSE self,
                disk |-> [fs EXCEPT !.files = opened.files],
                res |-> opened.res]

\* both backup files are read with json.load before either is copied; a missing
\* backup indexes file removes the indexes file of the database
restore_database(self, fs, db_name, backup_file) ==
  IF db_name \notin DOMAIN self.registry THEN [self |-> self, disk |-> fs, res |-> "ValueError"]
  ELSE IF fs.files[backup_file].nodes.kind = "missing"
  THEN [self |-> self, disk |-> fs, res |-> "ValueError"]
  ELSE LET db_file == self.registry[db_name]
           backup == fs.files[backup_file]
           copied == [fs.files EXCEPT ![db_file] = backup]
           opened == GraphDatabase__init__(copied, db_file)
       IN IF backup.nodes.kind # "json" \/ backup.indexes.kind \notin {"json", "missing"}
          THEN [self |-> self, disk |-> fs, res |-> "ValueError"]
          \* shutil.copy2 of a file onto itself raises SameFileError
          ELSE IF backup_file = db_file THEN [self |-> self, disk |-> fs, res |-> "IOError"]
          ELSE IF self.current_db # db_name
          THEN [self |-> self, disk |-> [fs EXCEPT !.files = copied], res |-> "ok"]
          ELSE [self |-> IF opened.res = "ok" THEN [self EXCEPT !.active_db_instance = opened.instance]
                         ELSE self,
                disk |-> [fs EXCEPT !.files = opened.files],
                res |-> opened.res]

\* a merge in which the attributes of the target win, and that writes no
\* adjacency entry and no index
merge_existing_wins(current, import_nodes_data, import_indexes_data) ==
  LET nodes == [node_id \in DOMAIN current.nodes \cup DOMAIN import_nodes_data |->
                  IF node_id \notin DOMAIN current.nodes
                  THEN [value |-> import_nodes_data[node_id].value, edges |-> EmptyDict]
                  ELSE IF node_id \in DOMAIN import_nodes_data
                  THEN [current.nodes[node_id] EXCEPT !.value = Update(import_nodes_data[node_id].value, @)]
                  ELSE current.nodes[node_id]]
  IN [nodes |-> nodes, indexes |-> current.indexes]

\* the merge branch of import_database: vertices, then adjacency entries in the
\* order of the file (ascending identities), then the union of the index maps
merge(current, import_nodes_data, import_indexes_data) ==
  LET nodes == [node_id \in DOMAIN current.nodes \cup DOMAIN import_nodes_data |->
                  IF node_id \notin DOMAIN current.nodes
                  THEN [value |-> import_nodes_data[node_id].value, edges |-> EmptyDict]
                  ELSE IF node_id \in DOMAIN import_nodes_data
                  THEN [current.nodes[node_id] EXCEPT !.value = Update(@, import_nodes_data[node_id].value)]
                  ELSE current.nodes[node_id]]
      \* the adjacency entry node_id -> target_id is in the file and is written
      Written(node_id, target_id) ==
        /\ node_id \in DOMAIN import_nodes_data
        /\ target_id \in DOMAIN import_nodes_data[node_id].edges
        /\ target_id \in DOMAIN nodes
      \* the last of the two writes to edges[node_id][target_id] is the one that stays
      Props(node_id, target_id) ==
        IF Written(node_id, target_id) /\ (node_id >= target_id \/ ~Written(target_id, node_id))
        THEN import_nodes_data[node_id].edges[target_id]
        ELSE IF Written(target_id, node_id) THEN import_nodes_data[target_id].edges[node_id]
        ELSE nodes[node_id].edges[target_id]
      joined == [node_id \in DOMAIN nodes |->
                   [nodes[node_id] EXCEPT !.edges =
                      [target_id \in DOMAIN @ \cup {t \in DOMAIN nodes : Written(node_id, t) \/ Written(t, node_id)}
                         |-> Props(node_id, target_id)]]]
      Index(indexes, attr, value_key) ==
        IF attr \in DOMAIN indexes /\ value_key \in DOMAIN indexes[attr] THEN indexes[attr][value_key] ELSE {}
      indexes == [attr \in DOMAIN current.indexes \cup DOMAIN import_indexes_data |->
                    [value_key \in (IF attr \in DOMAIN current.indexes THEN DOMAIN current.indexes[attr] ELSE {})
                                      \cup (IF attr \in DOMAIN import_indexes_data
                                            THEN DOMAIN import_indexes_data[attr] ELSE {})
                       |-> Index(current.indexes, attr, value_key)
                             \cup (IF attr \in DOMAIN import_indexes_data
                                      /\ value_key \in DOMAIN import_indexes_data[attr]
                                   THEN set(import_indexes_data[attr][value_key]) ELSE {})]]
  IN [nodes |-> joined, indexes |-> indexes]

\* import_file is the base name of the pair to import (a name that does not end
\* in .json is refused before anything is read)
import_database(self, fs, db_name, import_file, merge_mode) ==
  IF db_name \notin DOMAIN self.registry THEN [self |-> self, disk |-> fs, res |-> "ValueError"]
  ELSE IF fs.files[import_file].nodes.kind = "missing"
  THEN [self |-> self, disk |-> fs, res |-> "ValueError"]
  ELSE IF fs.files[import_file].nodes.kind # "json"
  THEN [self |-> self, disk |-> fs, res |-> "ValueError"]
  ELSE IF fs.files[import_file].indexes.kind \notin {"json", "missing"}
  THEN [self |-> self, disk |-> fs, res |-> "ValueError"]
  ELSE LET db_file == self.registry[db_name]
           \* the validation loop keeps label as str(label) and a weight that is a number
           import_nodes_data ==
             [node_id \in DOMAIN fs.files[import_file].nodes.data |->
                [fs.files[import_file].nodes.data[node_id] EXCEPT !.edges =
                   [target_id \in DOMAIN @ |->
                      [label |-> IF @[target_id].label = NoneV THEN NoneV ELSE StrV(str(@[target_id].label)),
                       weight |-> IF IsNumber(@[target_id].weight) THEN @[target_id].weight ELSE NoneV]]]]
           import_indexes_data == fs.files[import_file].indexes.data
           current_db == GraphDatabase__init__(fs.files, db_file)
           merged == merge(current_db.instance.db, import_nodes_data, import_indexes_data)
           saved == save([db |-> merged, nodes_file |-> EmptyDict, indexes_file |-> EmptyDict])
           written == [current_db.files EXCEPT ![db_file] =
                         IF merge_mode
                         THEN [nodes |-> File("json", saved.nodes_file), indexes |-> File("json", saved.indexes_file)]
                         ELSE [nodes |-> File("json", import_nodes_data),
                               indexes |-> File("json", import_indexes_data)]]
           opened == GraphDatabase__init__(written, db_file)
       IN IF current_db.res # "ok"
          THEN [self |-> self, disk |-> [fs EXCEPT !.files = current_db.files], res |-> current_db.res]
          ELSE IF self.current_db # db_name
          THEN [self |-> self, disk |-> [fs EXCEPT !.files = written], res |-> "ok"]
          ELSE [self |-> [self EXCEPT !.active_db_instance = opened.instance],
                disk |-> [fs EXCEPT !.files = opened.files],
                res |-> "ok"]

\* ------------------------------------------------- the manager's requests
DbNames == {"a", "b"}

\* the base names of the file pairs: the databases', a backup destination and
\* a pair to import


\* the module-level manager before DatabaseManager() has run
NoManager == [registry |-> EmptyDict, current_db |-> "", active_db_instance |-> NoInstance]

NoDisk ==
  [registry_file |-> File("missing", EmptyDict),
   files |-> [file \in DbNames \cup {"k", "m"} |->
               [nodes |-> File("missing", EmptyDict), indexes |-> File("missing", EmptyDict)]]]


\* ------------------------------------------- requests served by threads
\* app.run() serves each request on a thread of its own; the routes call the
\* methods of the one manager.active_db_instance and take no lock, so a thread
\* can be switched out between any two statements of a method.  A step below is
\* a run of statements of one method that is not interrupted.

\* a thread that serves no request
NoRequest == [op |-> "", key1 |-> 0, key2 |-> 0, pc |-> "idle", node_data |-> EmptyDict,
              targets |-> <<>>, res |-> ""]

\* the thread goes on at pc; at "done" the route has answered with res
Goto(self, th, pc, res) == [self |-> self, th |-> [th EXCEPT !.pc = pc, !.res = res]]

\* add_edge(key1, key2): the three tests and the snapshot, the assignment on
\* key1's side, the assignment on key2's side, save
add_edge_step(self, th) ==
  LET key1 == th.key1
      key2 == th.key2
      edge_props == [label |-> NoneV, weight |-> NoneV]
  IN CASE th.pc = "check" ->
            IF key1 \notin DOMAIN self.db.nodes \/ key2 \notin DOMAIN self.db.nodes
            THEN Goto(self, th, "done", "KeyError")
            ELSE IF key1 = key2 THEN Goto(self, th, "done", "ValueError")
            ELSE IF key2 \in DOMAIN self.db.nodes[key1].edges THEN Goto(self, th, "done", "ValueError")
            ELSE Goto(Snapshot(self), th, "first", "")
       [] th.pc = "first" ->
            IF key1 \notin DOMAIN self.db.nodes THEN Goto(self, th, "done", "KeyError")
            ELSE Goto([self EXCEPT !.db.nodes[key1].edges = Put(@, key2, edge_props)], th, "second", "")
       [] th.pc = "second" ->
            IF key2 \notin DOMAIN self.db.nodes THEN Goto(self, th, "done", "KeyError")
            ELSE Goto([self EXCEPT !.db.nodes[key2].edges = Put(@, key1, edge_props)], th, "save", "")
       [] th.pc = "save" -> Goto(save(self), th, "done", "ok")

\* delete_edge(key1, key2): the two tests and the snapshot, the two del
\* statements, save
delete_edge_step(self, th) ==
  LET key1 == th.key1
      key2 == th.key2
      Listed(a, b) == a \in DOMAIN self.db.nodes /\ b \in DOMAIN self.db.nodes[a].edges
  IN CASE th.pc = "check" ->
            IF key1 \notin DOMAIN self.db.nodes \/ key2 \notin DOMAIN self.db.nodes
            THEN Goto(self, th, "done", "KeyError")
            ELSE IF key2 \notin DOMAIN self.db.nodes[key1].edges THEN Goto(self, th, "done", "ValueError")
            ELSE Goto(Snapshot(self), th, "first", "")
       [] th.pc = "first" ->
            IF ~Listed(key1, key2) THEN Goto(self, th, "done", "KeyError")
            ELSE Goto([self EXCEPT !.db.nodes[key1].edges = Del(@, key2)], th, "second", "")
       [] th.pc = "second" ->
            IF ~Listed(key2, key1) THEN Goto(self, th, "done", "KeyError")
            ELSE Goto([self EXCEPT !.db.nodes[key2].edges = Del(@, key1)], th, "save", "")
       [] th.pc = "save" -> Goto(save(self), th, "done", "ok")

\* delete_node(key): the test, the snapshot and node_data; the index loop; the
\* list of the neighbours; one del per neighbour; del of the vertex; save
delete_node_step(self, th) ==
  LET key == th.key1
      \* node_data is the vertex read after the test, whether or not it is
      \* still in the vertex map when the index loop runs
      read == [self EXCEPT !.db.nodes = Put(@, key, [value |-> th.node_data, edges |-> EmptyDict])]
  IN CASE th.pc = "check" ->
            IF key \notin DOMAIN self.db.nodes THEN Goto(self, th, "done", "KeyError")
            ELSE Goto(Snapshot(self), [th EXCEPT !.node_data = self.db.nodes[key].value], "indexes", "")
       [] th.pc = "indexes" ->
            Goto([self EXCEPT !.db.indexes = delete_node_indexes(read, DOMAIN self.db.indexes, key).db.indexes],
                 th, "targets", "")
       [] th.pc = "targets" ->
            IF key \notin DOMAIN self.db.nodes THEN Goto(self, th, "done", "KeyError")
            ELSE Goto(self, [th EXCEPT !.targets = list(DOMAIN self.db.nodes[key].edges)], "edges", "")
       [] th.pc = "edges" /\ th.targets # <<>> ->
            LET target_id == Head(th.targets)
            IN IF target_id \notin DOMAIN self.db.nodes \/ key \notin DOMAIN self.db.nodes[target_id].edges
               THEN Goto(self, th, "done", "KeyError")
               ELSE Goto([self EXCEPT !.db.nodes[target_id].edges = Del(@, key)],
                         [th EXCEPT !.targets = Tail(@)], "edges", "")
       [] th.pc = "edges" /\ th.targets = <<>> ->
            IF key \notin DOMAIN self.db.nodes THEN Goto(self, th, "done", "KeyError")
            ELSE Goto([self EXCEPT !.db.nodes = Del(@, key)], th, "save", "")
       [] th.pc = "save" -> Goto(save(self), th, "done", "ok")

\* ---------------------------------------------------------------- actions
Init ==
  \E nodes_data \in StoredNodes :
    LET self == GraphDatabase(nodes_data, EmptyDict) IN
    /\ db = self.db
    /\ transaction = self.transaction
    /\ transaction_history = self.transaction_history
    /\ nodes_file = self.nodes_file
    /\ indexes_file = self.indexes_file
    /\ next_id = self.next_id
    /\ last = [op |-> "__init__", res |-> "ok", a |-> 0, b |-> 0, depth |-> 0,
               q |-> <<>>, cs |-> FALSE, out |-> <<>>]
    /\ pre = self.db
    /\ steps = 0
    /\ manager = NoManager
    /\ backed_up = EmptyDict
    /\ cli_db = [instance |-> NoInstance, shared |-> FALSE]
    /\ threads = [t \in 1..MaxThreads |-> NoRequest]
    /\ disk = NoDisk

\* one call of a method: its outcome becomes the instance state
Call(name, a, b, r) ==
  /\ db' = r.self.db
  /\ transaction' = r.self.transaction
  /\ transaction_history' = r.self.transaction_history
  /\ nodes_file' = r.self.nodes_file
  /\ indexes_file' = r.self.indexes_file
  /\ next_id' = r.self.next_id
  /\ last' = [op |-> name, res |-> r.res, a |-> a, b |-> b, depth |-> Len(transaction_history),
              q |-> <<>>, cs |-> FALSE, out |-> <<>>]
  /\ pre' = db
  /\ steps' = steps + 1
  /\ UNCHANGED <<manager, disk, backed_up, cli_db, threads>>

DoAddNode == \E value \in NodeInputs :
  next_id < MaxIds /\ Call("add_node", 0, 0, add_node(Self, value))

DoDeleteNode == \E key \in Ids : Call("delete_node", key, 0, delete_node(Self, key))

DoBegin == Call("begin_transaction", 0, 0, begin_transaction(Self))

DoCommit == Call("commit_transaction", 0, 0, commit_transaction(Self))

DoRollback == Call("rollback_transaction", 0, 0, rollback_transaction(Self))

DoStop == Call("stop_transaction", 0, 0, stop_transaction(Self))

AddNode == steps < MaxSteps /\ DoAddNode

UpdateNode == \E key \in Ids, value \in UpdateInputs :
  steps < MaxSteps /\ Call("update_node", key, 0, update_node(Self, key, value))

DeleteNode == steps < MaxSteps /\ DoDeleteNode

AddEdge == \E key1, key2 \in Ids, props \in EdgeInputs :
  steps < MaxSteps /\ Call("add_edge", key1, key2, add_edge(Self, key1, key2, props.label, props.weight))

DeleteEdge == \E key1, key2 \in Ids :
  steps < MaxSteps /\ Call("delete_edge", key1, key2, delete_edge(Self, key1, key2))

CreateIndex == \E attribute \in IndexInputs :
  steps < MaxSteps /\ Call("create_index", 0, 0, create_index(Self, attribute))

DropIndex == \E attribute \in IndexInputs :
  steps < MaxSteps /\ Call("drop_index", 0, 0, drop_index(Self, attribute))

Begin == steps < MaxSteps /\ DoBegin

Commit == steps < MaxSteps /\ DoCommit

Rollback == steps < MaxSteps /\ DoRollback

Stop == steps < MaxSteps /\ DoStop

Next ==
  \/ AddNode
  \/ UpdateNode
  \/ DeleteNode
  \/ AddEdge
  \/ DeleteEdge
  \/ CreateIndex
  \/ DropIndex
  \/ Begin
  \/ Commit
  \/ Rollback
  \/ Stop

\* every operation of the engine, in any order
Spec == Init /\ [][Next]_vars

\* ------------------------------------------------- longer transactions
TxAddNode == steps < MaxTxSteps /\ DoAddNode

TxDeleteNode == steps < MaxTxSteps /\ DoDeleteNode

TxBegin == steps < MaxTxSteps /\ DoBegin

TxCommit == steps < MaxTxSteps /\ DoCommit

TxRollback == steps < MaxTxSteps /\ DoRollback

TxStop == steps < MaxTxSteps /\ DoStop

NextTx ==
  \/ TxAddNode
  \/ TxDeleteNode
  \/ TxBegin
  \/ TxCommit
  \/ TxRollback
  \/ TxStop

\* the transaction commands around vertex insertions and deletions, run longer
SpecTx == Init /\ [][NextTx]_vars

\* ------------------------------------------------- reads between mutations
\* companion files left by an earlier session: none, or the path 1 - 2 - 3 with
\* a labelled, weighted edge and a bare one
StoredGraphs ==
  {EmptyDict,
   [id \in {1, 2, 3} |->
      [value |-> CASE id = 1 -> [a \in {"name", "age"} |-> IF a = "name" THEN Al ELSE IntV(1)]
                   [] id = 2 -> [a \in {"age", "ok"} |-> IF a = "age" THEN IntV(2) ELSE BoolV(TRUE)]
                   [] OTHER -> [a \in {"name", "age"} |-> IF a = "name" THEN Bo ELSE IntV(2)],
       edges |-> [t \in (IF id = 2 THEN {1, 3} ELSE {2}) |->
                    IF 1 \in {id, t} THEN [label |-> StrV(<<107>>), weight |-> IntV(2)]
                    ELSE [label |-> NoneV, weight |-> NoneV]]]]}

InitQ ==
  \E nodes_data \in StoredGraphs :
    LET self == GraphDatabase(nodes_data, EmptyDict) IN
    /\ db = self.db
    /\ transaction = self.transaction
    /\ transaction_history = self.transaction_history
    /\ nodes_file = self.nodes_file
    /\ indexes_file = self.indexes_file
    /\ next_id = self.next_id
    /\ last = [op |-> "__init__", res |-> "ok", a |-> 0, b |-> 0, depth |-> 0,
               q |-> <<>>, cs |-> FALSE, out |-> <<>>]
    /\ pre = self.db
    /\ steps = 0
    /\ manager = NoManager
    /\ backed_up = EmptyDict
    /\ cli_db = [instance |-> NoInstance, shared |-> FALSE]
    /\ threads = [t \in 1..MaxThreads |-> NoRequest]
    /\ disk = NoDisk

\* one call of a method that only reads: its return value is recorded
Read(name, a, b, q, cs, r) ==
  /\ last' = [op |-> name, res |-> r.res, a |-> a, b |-> b, depth |-> Len(transaction_history),
              q |-> q, cs |-> cs, out |-> r.out]
  /\ pre' = db
  /\ UNCHANGED <<db, transaction, transaction_history, nodes_file, indexes_file, next_id, steps, manager, disk, backed_up, cli_db, threads>>

\* one mutating call that succeeds (a failing one changes nothing a read sees;
\* Spec has them)
Mutate(name, a, b, r) == r.res = "ok" /\ Call(name, a, b, r)

\* the orders that can show in a query: a set is iterated only on the index
\* path, and one of fewer than two identities has a single order
QueryOrders(query_string, case_sensitive) ==
  LET groups == ParsedQueries[query_string].groups
  IN IF \E g \in DOMAIN groups :
          /\ UsesIndex(db.indexes, groups[g])
          /\ Cardinality(candidate_nodes(db.indexes, groups[g], case_sensitive)) > 1
     THEN Orders ELSE {list(Ids)}

\* the orders that can show in find_path: a single neighbour has one order
PathOrders == IF \A v \in DOMAIN db.nodes : Cardinality(Neighbors(db, v)) < 2 THEN {list(Ids)} ELSE Orders

QAddNode == \E value \in QueryNodeInputs :
  steps < MaxQSteps /\ next_id < MaxIds /\ Mutate("add_node", 0, 0, add_node(Self, value))

QUpdateNode == \E key \in Ids, value \in QueryUpdateInputs :
  steps < MaxQSteps /\ Mutate("update_node", key, 0, update_node(Self, key, value))

QDeleteNode == \E key \in Ids :
  steps < MaxQSteps /\ Mutate("delete_node", key, 0, delete_node(Self, key))

QAddEdge == \E key1, key2 \in Ids, props \in EdgeInputs :
  steps < MaxQSteps /\ Mutate("add_edge", key1, key2, add_edge(Self, key1, key2, props.label, props.weight))

QDeleteEdge == \E key1, key2 \in Ids :
  steps < MaxQSteps /\ Mutate("delete_edge", key1, key2, delete_edge(Self, key1, key2))

QCreateIndex == \E attribute \in QueryIndexInputs :
  steps < MaxQSteps /\ Mutate("create_index", 0, 0, create_index(Self, attribute))

QDropIndex == \E attribute \in QueryIndexInputs :
  steps < MaxQSteps /\ Mutate("drop_index", 0, 0, drop_index(Self, attribute))

\* a read changes nothing, so a read that follows a read reaches nothing new
Query == \E query_string \in Queries, case_sensitive \in BOOLEAN :
  \E order \in QueryOrders(query_string, case_sensitive) :
  /\ last.op \notin {"query", "find_path", "find_by_name"}
  /\ Read("query", 0, 0, query_string, case_sensitive, query(Self, query_string, case_sensitive, order))

FindPath == \E start_key, end_key \in Ids, order \in PathOrders :
  /\ last.op \notin {"query", "find_path", "find_by_name"}
  /\ Read("find_path", start_key, end_key, <<>>, FALSE, find_path(Self, start_key, end_key, order))

FindByName == \E name \in FindInputs :
  /\ last.op \notin {"query", "find_path", "find_by_name"}
  /\ Read("find_by_name", 0, 0, name, FALSE, find_by_name(Self, name))

NextQ ==
  \/ QAddNode
  \/ QUpdateNode
  \/ QDeleteNode
  \/ QAddEdge
  \/ QDeleteEdge
  \/ QCreateIndex
  \/ QDropIndex
  \/ Query
  \/ FindPath
  \/ FindByName

\* successful vertex, edge and index mutations with query and find_path read
\* in between
SpecQ == InitQ /\ [][NextQ]_vars

\* the disks a session may start on: nothing; database a (1 Al - 2 Bo, name
\* indexed) next to the pair m exported from an older state of a (1 Bo - 2 Bo,
\* the edge labelled), with the backup pair k absent or with an unparseable
\* indexes file; a registry whose entries have an unparseable vertices file, no
\* files, a vertices file that is not text
StoredDisks ==
  LET Vertex(name, target, label) ==
        [value |-> [attr \in {"name"} |-> name],
         edges |-> [t \in {target} |-> [label |-> label, weight |-> NoneV]]]
      a == [nodes |-> File("json", [id \in {1, 2} |->
                      IF id = 1 THEN [Vertex(Al, 2, NoneV) EXCEPT !.value = Update(@, [attr \in {"age"} |-> IntV(2)])]
                      ELSE Vertex(Bo, 1, NoneV)]),
            indexes |-> File("json", [attr \in {"name"} |->
                          [k \in {Al.s, Bo.s} |-> IF k = Al.s THEN <<1>> ELSE <<2>>]])]
      m == [nodes |-> File("json", [id \in {1, 2} |-> Vertex(Bo, 3 - id, StrV(<<107>>))]),
            indexes |-> File("json", [attr \in {"name"} |-> [k \in {Bo.s} |-> <<1, 2>>]])]
      k == [nodes |-> File("json", EmptyDict), indexes |-> File("bad", EmptyDict)]
      bad == [nodes |-> File("bad", EmptyDict), indexes |-> File("json", EmptyDict)]
      binary == [nodes |-> File("binary", EmptyDict), indexes |-> File("missing", EmptyDict)]
      Registry(names) == File("json", [db_name \in names |-> db_name])
  IN {NoDisk,
      [registry_file |-> Registry({"a"}), files |-> [NoDisk.files EXCEPT !["a"] = a, !["m"] = m]],
      [registry_file |-> Registry({"a"}), files |-> [NoDisk.files EXCEPT !["a"] = a, !["m"] = m, !["k"] = k]],
      [registry_file |-> Registry({"a", "b"}), files |-> [NoDisk.files EXCEPT !["a"] = bad]],
      [registry_file |-> Registry({"a", "b"}), files |-> [NoDisk.files EXCEPT !["a"] = binary, !["b"] = a]]}

InitM ==
  /\ disk \in StoredDisks
  /\ manager = NoManager
  /\ backed_up = EmptyDict
  /\ cli_db = [instance |-> NoInstance, shared |-> FALSE]
  /\ threads = [t \in 1..MaxThreads |-> NoRequest]
  /\ db = [nodes |-> EmptyDict, indexes |-> EmptyDict]
  /\ transaction = "None"
  /\ transaction_history = <<>>
  /\ nodes_file = EmptyDict
  /\ indexes_file = EmptyDict
  /\ next_id = 2
  /\ last = [op |-> "", res |-> "ok", a |-> "", b |-> "", depth |-> 0, q |-> <<>>, cs |-> FALSE, out |-> <<>>]
  /\ pre = [manager |-> manager, disk |-> disk]
  /\ steps = 0

\* one call on the manager: its outcome becomes the manager and the disk
Request(name, a, b, mode, r) ==
  /\ manager' = r.self
  /\ disk' = r.disk
  /\ last' = [op |-> name, res |-> r.res, a |-> a, b |-> b, depth |-> 0, q |-> <<>>, cs |-> mode, out |-> <<>>]
  /\ pre' = [manager |-> manager, disk |-> disk]
  /\ backed_up' = IF name = "backup_database" /\ r.res = "ok"
                  THEN [db_name |-> a, backup_file |-> b, pair |-> disk.files[manager.registry[a]]]
                  ELSE IF name = "restore_database" THEN backed_up ELSE EmptyDict
  /\ steps' = IF last.op = "" THEN 0 ELSE steps + 1
  /\ UNCHANGED <<db, transaction, transaction_history, nodes_file, indexes_file, next_id, cli_db, threads>>

\* manager = DatabaseManager(): the process starts, or is started again
Start ==
  /\ last.op = "" \/ steps < MaxMSteps
  /\ Request("__init__", "", "", FALSE, DatabaseManager__init__(disk))

\* the database routes, backup, restore and import included; rename_database tests manager.current_db == old_name
\* after update_database has already changed it, so its use_database never runs
Catalog ==
  /\ last.op # "" /\ steps < MaxMSteps
  /\ \/ \E db_name \in DbNames : Request("create_database", db_name, "", FALSE, create_database(manager, disk, db_name))
     \/ \E db_name \in DbNames : Request("delete_database", db_name, "", FALSE, delete_database(manager, disk, db_name))
     \/ \E old_name, new_name \in DbNames :
          Request("update_database", old_name, new_name, FALSE, update_database(manager, disk, old_name, new_name))
     \/ \E db_name \in DbNames : Request("use_database", db_name, "", FALSE, use_database(manager, disk, db_name))
     \/ \E db_name \in DbNames, backup_file \in {"k", "b"} :
          Request("backup_database", db_name, backup_file, FALSE, backup_database(manager, disk, db_name, backup_file))
     \/ \E db_name \in DbNames, backup_file \in {"k", "m"} :
          Request("restore_database", db_name, backup_file, FALSE, restore_database(manager, disk, db_name, backup_file))
     \/ \E db_name \in DbNames, merge_mode \in BOOLEAN :
          Request("import_database", db_name, "m", merge_mode, import_database(manager, disk, db_name, "m", merge_mode))

\* manager.active_db_instance as the methods see it
Active ==
  [db |-> manager.active_db_instance.db,
   transaction |-> manager.active_db_instance.transaction,
   transaction_history |-> manager.active_db_instance.transaction_history,
   \* a value no save writes: the instance has not saved during the call
   nodes_file |-> [x \in {0} |-> 0], indexes_file |-> EmptyDict, next_id |-> next_id]

\* a method of manager.active_db_instance called by a route that found
\* manager.current_db set: the instance saves into the files it was opened on
Engine(name, a, b, r) ==
  /\ last.op # "" /\ steps < MaxMSteps
  /\ manager.current_db # "" /\ manager.active_db_instance # NoInstance
  /\ r.res = "ok"
  /\ manager' = [manager EXCEPT !.active_db_instance =
                   [file |-> @.file, db |-> r.self.db, transaction |-> r.self.transaction,
                    transaction_history |-> r.self.transaction_history]]
  /\ disk' = IF r.self.nodes_file = Active.nodes_file THEN disk
             ELSE [disk EXCEPT !.files[manager.active_db_instance.file] =
                     [nodes |-> File("json", r.self.nodes_file), indexes |-> File("json", r.self.indexes_file)]]
  /\ next_id' = r.self.next_id
  /\ last' = [op |-> name, res |-> r.res, a |-> a, b |-> b, depth |-> 0, q |-> <<>>, cs |-> FALSE, out |-> <<>>]
  /\ pre' = [manager |-> manager, disk |-> disk]
  /\ steps' = steps + 1
  /\ UNCHANGED <<db, transaction, transaction_history, nodes_file, indexes_file, backed_up, cli_db, threads>>

\* the vertex, edge and index routes
Mutation ==
  \/ next_id < MaxIds /\ Engine("add_node", "", "", add_node(Active, [a \in {"name"} |-> Bo]))
  \/ \E key \in Ids : Engine("update_node", "", "", update_node(Active, key, [a \in {"name"} |-> Al]))
  \/ \E key \in Ids : Engine("delete_node", "", "", delete_node(Active, key))
  \/ \E key1, key2 \in Ids : Engine("add_edge", "", "", add_edge(Active, key1, key2, NoneV, NoneV))
  \/ Engine("create_index", "", "", create_index(Active, "name"))

NextM ==
  \/ Start
  \/ Catalog
  \/ Mutation

SpecM == InitM /\ [][NextM]_vars

\* ------------------------------------------- specification of the threads
\* the database the requests work on: three vertices, an index on name and
\* the edge 1 - 2, built by the methods
InitT ==
  LET one == add_node(GraphDatabase(EmptyDict, EmptyDict), [a \in {"name"} |-> Al]).self
      two == add_node(one, [a \in {"name"} |-> Bo]).self
      three == add_node(two, [a \in {"name"} |-> Bo]).self
      Started(self) ==
        /\ db = self.db
        /\ transaction = self.transaction
        /\ transaction_history = self.transaction_history
        /\ nodes_file = self.nodes_file
        /\ indexes_file = self.indexes_file
        /\ next_id = self.next_id
        /\ last = [op |-> "", res |-> "ok", a |-> 0, b |-> 0, depth |-> 0, q |-> <<>>, cs |-> FALSE, out |-> <<>>]
        /\ pre = self.db
        /\ steps = 0
        /\ manager = NoManager
        /\ backed_up = EmptyDict
        /\ cli_db = [instance |-> NoInstance, shared |-> FALSE]
        /\ disk = NoDisk
        /\ threads = [t \in 1..MaxThreads |-> NoRequest]
  IN Started(add_edge(create_index(three, "name").self, 1, 2, NoneV, NoneV).self)

\* a route is entered: DELETE /api/nodes/<node_id>, POST /api/edges or
\* DELETE /api/edges, with a database selected
Accept(t) ==
  /\ threads[t].pc = "idle"
  /\ \E op \in {"add_edge", "delete_edge", "delete_node"}, key1, key2 \in Ids :
       /\ op = "delete_node" => key2 = key1
       /\ threads' = [threads EXCEPT ![t] = [NoRequest EXCEPT !.op = op, !.key1 = key1, !.key2 = key2,
                                                               !.pc = "check"]]
  /\ UNCHANGED <<db, transaction, transaction_history, nodes_file, indexes_file, next_id, last, pre, steps,
                 manager, disk, backed_up, cli_db>>

\* the thread runs until the next point where it can be switched out
Work(t) ==
  /\ threads[t].pc \notin {"idle", "done"}
  /\ LET Outcome(r) ==
           /\ db' = r.self.db
           /\ transaction_history' = r.self.transaction_history
           /\ nodes_file' = r.self.nodes_file
           /\ indexes_file' = r.self.indexes_file
           /\ threads' = [threads EXCEPT ![t] = r.th]
     IN Outcome(CASE threads[t].op = "add_edge" -> add_edge_step(Self, threads[t])
                  [] threads[t].op = "delete_edge" -> delete_edge_step(Self, threads[t])
                  [] threads[t].op = "delete_node" -> delete_node_step(Self, threads[t]))
  /\ UNCHANGED <<transaction, next_id, last, pre, steps, manager, disk, backed_up, cli_db>>

NextT ==
  \E t \in 1..MaxThreads :
    \/ Accept(t)
    \/ Work(t)

SpecT == InitT /\ [][NextT]_vars

\* ------------------------------------------------------ the command shell
\* run_cli(manager) is entered with a manager just constructed and db = None
InitC ==
  \E fs \in StoredDisks :
    LET started == DatabaseManager__init__(fs) IN
    /\ manager = started.self
    /\ disk = started.disk
    /\ cli_db = [instance |-> NoInstance, shared |-> FALSE]
    /\ backed_up = EmptyDict
    /\ threads = [t \in 1..MaxThreads |-> NoRequest]
    /\ db = [nodes |-> EmptyDict, indexes |-> EmptyDict]
    /\ transaction = "None"
    /\ transaction_history = <<>>
    /\ nodes_file = EmptyDict
    /\ indexes_file = EmptyDict
    /\ next_id = 2
    /\ last = [op |-> "__init__", res |-> started.res, a |-> "", b |-> "", depth |-> 0,
               q |-> <<>>, cs |-> FALSE, out |-> <<>>]
    /\ pre = [manager |-> started.self, disk |-> started.disk]
    /\ steps = 0

\* a command that calls a method of the manager; only use_db assigns db, and
\* only when use_database returns. The object db refers to stops being
\* manager.active_db_instance when the manager assigns that attribute.
Command(name, a, b, mode, r) ==
  /\ steps < MaxCSteps
  /\ manager' = r.self
  /\ disk' = r.disk
  /\ cli_db' = IF name = "use_database"
               THEN IF r.res = "ok" THEN [instance |-> r.self.active_db_instance, shared |-> TRUE]
                    ELSE cli_db
               ELSE IF /\ name \in {"delete_database", "restore_database", "import_database"}
                       /\ r.res = "ok" /\ a = manager.current_db
               THEN [cli_db EXCEPT !.shared = FALSE]
               ELSE cli_db
  /\ last' = [op |-> name, res |-> r.res, a |-> a, b |-> b, depth |-> 0, q |-> <<>>, cs |-> mode, out |-> <<>>]
  /\ pre' = [manager |-> manager, disk |-> disk]
  /\ steps' = steps + 1
  /\ UNCHANGED <<db, transaction, transaction_history, nodes_file, indexes_file, next_id, backed_up, threads>>

\* create_db, delete_db, rename_db, use_db, backup_db, restore_db, import_db
ManagerCommand ==
  \/ \E db_name \in DbNames : Command("create_database", db_name, "", FALSE, create_database(manager, disk, db_name))
  \/ \E db_name \in DbNames : Command("delete_database", db_name, "", FALSE, delete_database(manager, disk, db_name))
  \/ \E old_name, new_name \in DbNames :
       Command("update_database", old_name, new_name, FALSE, update_database(manager, disk, old_name, new_name))
  \/ \E db_name \in DbNames : Command("use_database", db_name, "", FALSE, use_database(manager, disk, db_name))
  \/ \E db_name \in DbNames :
       Command("backup_database", db_name, "k", FALSE, backup_database(manager, disk, db_name, "k"))
  \/ \E db_name \in DbNames, backup_file \in {"k", "m"} :
       Command("restore_database", db_name, backup_file, FALSE, restore_database(manager, disk, db_name, backup_file))
  \/ \E db_name \in DbNames, merge_mode \in BOOLEAN :
       Command("import_database", db_name, "m", merge_mode, import_database(manager, disk, db_name, "m", merge_mode))

\* a command past `elif db is None`: a method of the instance db refers to that
\* returns; the instance saves into the files it was opened on
Handle(name, key, r) ==
  LET instance == [file |-> cli_db.instance.file, db |-> r.self.db, transaction |-> r.self.transaction,
                   transaction_history |-> r.self.transaction_history]
  IN /\ steps < MaxCSteps
     /\ cli_db.instance # NoInstance
     /\ r.res = "ok"
     /\ cli_db' = [cli_db EXCEPT !.instance = instance]
     /\ manager' = IF cli_db.shared THEN [manager EXCEPT !.active_db_instance = instance] ELSE manager
     /\ disk' = [disk EXCEPT !.files[cli_db.instance.file] =
                   [nodes |-> File("json", r.self.nodes_file), indexes |-> File("json", r.self.indexes_file)]]
     /\ next_id' = r.self.next_id
     /\ last' = [op |-> name, res |-> r.res, a |-> "", b |-> "", depth |-> key, q |-> <<>>, cs |-> FALSE, out |-> <<>>]
     /\ pre' = [manager |-> manager, disk |-> disk]
     /\ steps' = steps + 1
     /\ UNCHANGED <<db, transaction, transaction_history, nodes_file, indexes_file, backed_up, threads>>

\* add, update, delete
DbCommand ==
  LET self == [db |-> cli_db.instance.db,
               transaction |-> cli_db.instance.transaction,
               transaction_history |-> cli_db.instance.transaction_history,
               nodes_file |-> EmptyDict, indexes_file |-> EmptyDict, next_id |-> next_id]
  IN \/ next_id < MaxIds /\ Handle("add_node", 0, add_node(self, [a \in {"name"} |-> Bo]))
     \/ \E key \in Ids : Handle("update_node", key, update_node(self, key, [a \in {"name"} |-> Al]))
     \/ \E key \in Ids : Handle("delete_node", key, delete_node(self, key))

NextC ==
  \/ ManagerCommand
  \/ DbCommand

\* the commands of the shell on a manager and its db handle
SpecC == InitC /\ [][NextC]_vars

\* ================================================================ claims
Mutations == {"add_node", "update_node", "delete_node", "add_edge", "delete_edge"}

\* what re-opening the companion files yields
Persisted == GraphDatabase(nodes_file, indexes_file).db

\* C1: for every indexed attribute a and every vertex V carrying a = v, V is in
\* index[a][str(v)] and in no other key set of index[a]; vertices that do not
\* carry a, or no longer exist, are in no key set of index[a].
C1_IndexAgreesWithVertices ==
  \A a \in DOMAIN db.indexes :
    /\ \A k \in DOMAIN db.indexes[a] : \A v \in db.indexes[a][k] :
         /\ v \in DOMAIN db.nodes
         /\ a \in DOMAIN db.nodes[v].value
         /\ str(db.nodes[v].value[a]) = k
    /\ \A v \in DOMAIN db.nodes :
         a \in DOMAIN db.nodes[v].value =>
           /\ str(db.nodes[v].value[a]) \in DOMAIN db.indexes[a]
           /\ v \in db.indexes[a][str(db.nodes[v].value[a])]

\* C2: adjacency is symmetric after every step, failing steps included: b is a
\* neighbour of a iff a is a neighbour of b, and the property record stored at
\* a->b equals the one stored at b->a.
C2_AdjacencySymmetric ==
  \A a \in DOMAIN db.nodes : \A b \in Neighbors(db, a) :
    /\ b \in DOMAIN db.nodes
    /\ a \in Neighbors(db, b)
    /\ db.nodes[b].edges[a] = db.nodes[a].edges[b]

\* C2 witness: add_edge has just joined two vertices with a label and a weight
\* while a third vertex is also joined to one of them.
C2_Witness ==
  /\ last.op = "add_edge" /\ last.res = "ok"
  /\ last.b \in Neighbors(db, last.a)
  /\ db.nodes[last.a].edges[last.b].weight = IntV(2)
  /\ \E c \in DOMAIN db.nodes : c # last.a /\ c \in Neighbors(db, last.b)

\* C3: in an active transaction, a successful vertex or edge mutation followed
\* immediately by rollback_transaction restores exactly the vertex map,
\* adjacency and index maps from before that mutation, and that state is what
\* the companion files hold.
C3_RollbackUndoesLastMutation ==
  [][(/\ last.op \in Mutations /\ last.res = "ok"
      /\ transaction = "True"
      /\ last'.op = "rollback_transaction")
     => (/\ last'.res = "ok"
         /\ db' = pre
         /\ GraphDatabase(nodes_file', indexes_file').db = pre)]_vars

\* C3 witness: a rollback has replaced the live state by a snapshot that differs
\* from it.
C3_Witness ==
  /\ last.op = "rollback_transaction" /\ last.res = "ok"
  /\ db # pre
  /\ Persisted = db

\* C4: after a successful commit_transaction, a rollback_transaction that follows
\* with no mutation in between does not remove the effect of the mutation applied
\* last before the commit: the live state stays as the commit left it.
C4_CommittedChangeSurvivesRollback ==
  [][(/\ last.op = "commit_transaction" /\ last.res = "ok"
      /\ last'.op = "rollback_transaction")
     => db' = db]_vars

\* C5: after a successful delete_node(v), v is absent from the vertex map and is
\* a key of no adjacency map; every identity that an adjacency map references
\* exists in the vertex map.
C5_NoDanglingNeighbour ==
  /\ \A a \in DOMAIN db.nodes : Neighbors(db, a) \subseteq DOMAIN db.nodes
  /\ (last.op = "delete_node" /\ last.res = "ok") =>
       /\ last.a \notin DOMAIN db.nodes
       /\ \A a \in DOMAIN db.nodes : last.a \notin Neighbors(db, a)

\* C5 witness: delete_node has just removed a vertex that had a neighbour.
C5_Witness ==
  /\ last.op = "delete_node" /\ last.res = "ok"
  /\ Neighbors(pre, last.a) # {}

\* C6: after a successful delete_node(v) no set of any index map contains v,
\* whatever the kind and spelling of v's attribute values; every identity in an
\* index set exists in the vertex map.
C6_NoIndexEntryAfterDelete ==
  /\ (last.op = "delete_node" /\ last.res = "ok") =>
       \A a \in DOMAIN db.indexes : \A k \in DOMAIN db.indexes[a] : last.a \notin db.indexes[a][k]
  /\ \A a \in DOMAIN db.indexes : \A k \in DOMAIN db.indexes[a] :
       db.indexes[a][k] \subseteq DOMAIN db.nodes

\* add_edge(a, b) must be refused in state d
Refused(d, a, b) ==
  \/ a \notin DOMAIN d.nodes
  \/ b \notin DOMAIN d.nodes
  \/ a = b
  \/ b \in Neighbors(d, a)
  \/ a \in Neighbors(d, b)

\* C7: add_edge(a, b) fails when a or b is unknown, when a = b, or when an edge
\* already joins a and b in either orientation; such a failure leaves the vertex
\* map, adjacency, indexes and companion files unchanged; no vertex lists itself
\* as a neighbour.
C7_AddEdgeRefusals ==
  /\ [][(last'.op = "add_edge" /\ Refused(db, last'.a, last'.b))
        => (/\ last'.res # "ok"
            /\ UNCHANGED <<db, nodes_file, indexes_file>>)]_vars
  /\ [](\A v \in DOMAIN db.nodes : v \notin Neighbors(db, v))

\* C7 witness: add_edge(b, a) has just been refused because the edge a-b exists,
\* stored by an earlier add_edge(a, b) in the other orientation.
C7_Witness ==
  /\ last.op = "add_edge" /\ last.res = "ValueError"
  /\ last.a > last.b
  /\ last.a \in DOMAIN db.nodes /\ last.b \in DOMAIN db.nodes
  /\ last.a \in Neighbors(db, last.b)
  /\ db = pre

\* C8: begin_transaction fails when a transaction is already open, and
\* commit_transaction, rollback_transaction and stop_transaction fail when no
\* transaction is active; the live state, the snapshot stack, the transaction
\* flag and the companion files are then unchanged.
C8_WrongStateCommandsFail ==
  [][(\/ last'.op = "begin_transaction" /\ transaction # "None"
      \/ /\ last'.op \in {"commit_transaction", "rollback_transaction", "stop_transaction"}
         /\ transaction # "True")
     => (/\ last'.res = "ValueError"
         /\ UNCHANGED <<db, transaction, transaction_history, nodes_file, indexes_file>>)]_vars

\* C8 witness: begin_transaction has just been refused inside an open
\* transaction that holds a snapshot.
C8_Witness ==
  /\ last.op = "begin_transaction" /\ last.res = "ValueError"
  /\ transaction = "True"
  /\ transaction_history # <<>>

\* C9: during an active transaction a vertex or edge mutation that fails leaves
\* the snapshot stack unchanged.
C9_FailedMutationPushesNothing ==
  [][(/\ transaction = "True"
      /\ last'.op \in Mutations
      /\ last'.res # "ok")
     => transaction_history' = transaction_history]_vars

\* C10: during an active transaction a successful create_index or drop_index
\* pushes a snapshot before applying, so that a rollback_transaction that follows
\* immediately restores exactly the index maps and vertex map from before the call.
C10_IndexChangeIsSnapshotted ==
  [][(/\ last.op \in {"create_index", "drop_index"} /\ last.res = "ok"
      /\ transaction = "True"
      /\ last'.op = "rollback_transaction")
     => db' = pre]_vars

\* C11: find_path(a, b) returns (terminates) on every graph, cyclic ones
\* included; it raises KeyError exactly when a or b is unknown; it returns [a]
\* when a = b; it returns None exactly when no walk joins a to b; and a path it
\* returns starts at a, ends at b, joins adjacent vertices and has no shorter
\* rival.
C11_FindPathShortest ==
  last.op = "find_path" =>
    LET a == last.a
        b == last.b
        p == last.out
        known == a \in DOMAIN db.nodes /\ b \in DOMAIN db.nodes
        \* w is a walk from a to b: consecutive vertices are adjacent
        IsWalk(w) == /\ w[1] = a
                     /\ w[Len(w)] = b
                     /\ \A i \in 1..(Len(w) - 1) : w[i] \in DOMAIN db.nodes /\ w[i + 1] \in Neighbors(db, w[i])
        \* the walks of n vertices from a to b
        Walks(n) == {w \in [1..n -> DOMAIN db.nodes] : IsWalk(w)}
    IN /\ last.res = (IF known THEN "ok" ELSE "KeyError")
       /\ known =>
            /\ a = b => p = <<a>>
            /\ p = <<>> <=> \A n \in 1..Cardinality(DOMAIN db.nodes) : Walks(n) = {}
            /\ p # <<>> => /\ IsWalk(p)
                           /\ \A n \in 1..(Len(p) - 1) : Walks(n) = {}

\* C11 witness: find_path has returned a direct edge as the path between two
\* vertices of a triangle, where a walk through the third vertex also exists.
C11_Witness ==
  /\ last.op = "find_path" /\ last.res = "ok"
  /\ Len(last.out) = 2
  /\ Cardinality(DOMAIN db.nodes) = 3
  /\ \A v \in DOMAIN db.nodes : Neighbors(db, v) = DOMAIN db.nodes \ {v}

\* C12: after every successful add_node, update_node, delete_node, add_edge,
\* delete_edge, create_index, drop_index and rollback_transaction, re-opening
\* the database from the two companion files yields the vertex map, adjacency
\* and index maps that are in memory.
C12_FilesHoldLiveState ==
  (/\ last.op \in Mutations \cup {"create_index", "drop_index", "rollback_transaction"}
   /\ last.res = "ok")
    => Persisted = db

\* C12 witness: create_index has just built and saved an index with a key set
\* that is not empty, over vertices that are joined by an edge.
C12_Witness ==
  /\ last.op = "create_index" /\ last.res = "ok"
  /\ \E a \in DOMAIN indexes_file : \E k \in DOMAIN indexes_file[a] : indexes_file[a][k] # <<>>
  /\ \E v \in DOMAIN nodes_file : nodes_file[v].edges # EmptyDict
  /\ db.indexes # pre.indexes

\* C13: a query made of = and IN conditions on vertex attributes returns the
\* same vertices (or raises the same) whether or not the attributes are
\* indexed, for case_sensitive false and true: what it returns equals what it
\* returns once every index is dropped.
C13_IndexesKeepAnswers ==
  (last.op = "query" /\ last.q \in Lookups) =>
    LET bare == query([Self EXCEPT !.db.indexes = EmptyDict], last.q, last.cs, list(Ids))
    IN last.res = bare.res /\ set(last.out) = set(bare.out)

\* C14: a condition `age OP n` with OP any of = > < >= <= != returns exactly the
\* vertices whose numeric age satisfies OP n.
C14_ComparisonOperatorsParsed ==
  \A c \in Comparisons :
    (last.op = "query" /\ last.q = c.text) =>
      /\ last.res = "ok"
      /\ set(last.out) =
           {v \in DOMAIN db.nodes :
              /\ "age" \in DOMAIN db.nodes[v].value
              /\ IsNumber(db.nodes[v].value["age"])
              /\ Compare(c.op, Num(db.nodes[v].value["age"]), 10 * c.n)}

\* C15: a condition `edge.weight OP n` returns exactly the vertices with an
\* incident edge whose weight satisfies OP n: both endpoints of such an edge,
\* never a vertex without edges, nothing once delete_edge has removed the edge.
C15_EdgeWeightQueries ==
  \A c \in EdgeQueries :
    (last.op = "query" /\ last.q = c.text) =>
      /\ last.res = "ok"
      /\ set(last.out) =
           {v \in DOMAIN db.nodes :
              \E t \in Neighbors(db, v) :
                /\ IsNumber(db.nodes[v].edges[t].weight)
                /\ Compare(c.op, Num(db.nodes[v].edges[t].weight), 10 * c.n)}

\* C16: on a boolean attribute `ok = literal` returns the vertices whose value
\* equals (lower-cased literal = "true"), and `ok != literal` those whose value
\* differs from it.
C16_BooleanLiterals ==
  \A c \in BoolQueries :
    (last.op = "query" /\ last.q = c.text) =>
      /\ last.res = "ok"
      /\ set(last.out) =
           {v \in DOMAIN db.nodes :
              /\ "ok" \in DOMAIN db.nodes[v].value
              /\ db.nodes[v].value["ok"].kind = "bool"
              /\ ((db.nodes[v].value["ok"] = BoolV(lower(c.literal) = lower(str(BoolV(TRUE)))))
                    = (c.op = Operators[1]))}

\* C17: a query whose operator word (OR, AND, IN, CONTAINS, REGEX) is written
\* in lower or mixed case returns what the same query returns with the word in
\* upper case.
C17_OperatorWordsAnyCase ==
  \A w \in WordQueries :
    (last.op = "query" /\ last.q = w.alt) =>
      LET same == query(Self, w.std, last.cs, list(Ids))
      IN last.res = same.res /\ set(last.out) = set(same.out)

\* C18: the result of a query of two OR-groups lists no vertex twice and is
\* the matches of the left group followed by those matches of the right group
\* that the left group did not give (each group's matches being what the query
\* made of that group alone returns).
C18_GroupsUnionOnce ==
  \A g \in GroupQueries :
    (last.op = "query" /\ last.q = TwoGroups(g)) =>
      LET left == query(Self, Where(g.left), last.cs, list(Ids))
          right == query(Self, Where(g.right), last.cs, list(Ids))
      IN (left.res = "ok" /\ right.res = "ok") =>
           /\ last.res = "ok"
           /\ Cardinality(set(last.out)) = Len(last.out)
           /\ Len(last.out) >= Len(left.out)
           /\ set(SubSeq(last.out, 1, Len(left.out))) = set(left.out)
           /\ set(SubSeq(last.out, Len(left.out) + 1, Len(last.out))) = set(right.out) \ set(left.out)

\* C18 witness: a query of two groups has returned several vertices, one of
\* which satisfies both groups, the left group being read through an index.
C18_Witness ==
  \E g \in GroupQueries :
    /\ last.op = "query" /\ last.res = "ok" /\ last.q = TwoGroups(g)
    /\ Len(last.out) > 1
    /\ UsesIndex(db.indexes, parse(Where(g.left)).groups[1])
    /\ set(query(Self, Where(g.left), last.cs, list(Ids)).out)
         \cap set(query(Self, Where(g.right), last.cs, list(Ids)).out) # {}

\* C19: with an index on age, whose values are integers, `WHERE age = n`
\* returns exactly the vertices whose age equals n, each once.
C19_IndexedIntegerEquality ==
  \A c \in Comparisons :
    (/\ last.op = "query" /\ last.q = c.text /\ c.op = Operators[1]
     /\ "age" \in DOMAIN db.indexes
     /\ \A v \in DOMAIN db.nodes :
          "age" \in DOMAIN db.nodes[v].value => db.nodes[v].value["age"].kind = "int") =>
      /\ last.res = "ok"
      /\ Cardinality(set(last.out)) = Len(last.out)
      /\ set(last.out) = {v \in DOMAIN db.nodes :
                            "age" \in DOMAIN db.nodes[v].value /\ db.nodes[v].value["age"] = IntV(c.n)}

\* C19 witness: `WHERE age = 2` has returned three vertices through the index
\* on age, after one create_index and one update_node that gave a vertex
\* that age.
C19_Witness ==
  /\ last.op = "query" /\ last.res = "ok"
  /\ "age" \in DOMAIN db.indexes
  /\ Len(last.out) = 3
  /\ \A i \in DOMAIN last.out : db.nodes[last.out[i]].value["age"] = IntV(2)
  /\ steps = 2

\* C20: in an active transaction whose snapshot stack is empty,
\* rollback_transaction and commit_transaction do not raise and leave the live
\* state, the companion files, the transaction flag and the stack unchanged.
C20_EmptyStackNoOps ==
  [][(/\ transaction = "True"
      /\ transaction_history = <<>>
      /\ last'.op \in {"rollback_transaction", "commit_transaction"})
     => (/\ last'.res = "ok"
         /\ UNCHANGED <<db, nodes_file, indexes_file, transaction, transaction_history>>)]_vars

\* C20 witness: commit_transaction has just returned in an active transaction
\* whose stack was already empty, after a vertex added in it was rolled back.
C20_Witness ==
  /\ last.op = "commit_transaction" /\ last.res = "ok"
  /\ last.depth = 0
  /\ transaction = "True"
  /\ next_id > Cardinality(DOMAIN db.nodes)
  /\ nodes_file = db.nodes

\* C21: stop_transaction in an active transaction empties the snapshot stack and
\* leaves the live state as it is, and the snapshot stack is empty whenever no
\* transaction is active (a mutation outside an active transaction pushes nothing).
C21_StackEmptyOutsideTransaction ==
  /\ transaction # "True" => transaction_history = <<>>
  /\ (last.op = "stop_transaction" /\ last.res = "ok")
       => (transaction = "False" /\ transaction_history = <<>> /\ db = pre)

\* C21 witness: a vertex has just been added after stop_transaction ended a
\* transaction in which another vertex was added.
C21_Witness ==
  /\ last.op = "add_node" /\ last.res = "ok"
  /\ transaction = "False"
  /\ transaction_history = <<>>
  /\ Cardinality(DOMAIN db.nodes) >= Cardinality(DOMAIN pre.nodes) + 1
  /\ steps = 4

\* C29: find_by_name(s) with an index on name returns exactly the set stored in
\* the name index at the case-folded key of s; without a name index it returns
\* exactly the vertices whose name attribute contains s as a case-insensitive
\* substring.
C29_FindByName ==
  last.op = "find_by_name" =>
    /\ last.res = "ok"
    /\ set(last.out) =
         IF "name" \in DOMAIN db.indexes
         THEN {id \in Ids : \E k \in DOMAIN db.indexes["name"] :
                                k = lower(last.q) /\ id \in db.indexes["name"][k]}
         ELSE {id \in DOMAIN db.nodes :
                 /\ Get(db.nodes[id].value, "name").kind = "str"
                 /\ \E i \in 1..(Len(db.nodes[id].value["name"].s) - Len(last.q) + 1) :
                      lower(SubSeq(db.nodes[id].value["name"].s, i, i + Len(last.q) - 1)) = lower(last.q)}

\* C22: update_database(old, new) while old is the active selection retargets
\* the selection: afterwards the current database is new and the active
\* instance reads and persists new's companion files.
C22_RenameRetargetsSelection ==
  (/\ last.op = "update_database" /\ last.res = "ok"
   /\ pre.manager.current_db = last.a
   /\ pre.manager.active_db_instance # NoInstance)
  => (/\ manager.current_db = last.b
      /\ manager.active_db_instance.file = manager.registry[last.b])

\* C23: after DatabaseManager startup and after any sequence of catalog calls,
\* failing ones included, every registry entry has its vertices file on disk, no
\* two entries share a base file name, a database just deleted has neither
\* companion file left, and the registry file holds the in-memory registry.
C23_RegistryMatchesDisk ==
  last.op # "" =>
    /\ \A db_name \in DOMAIN manager.registry : disk.files[manager.registry[db_name]].nodes.kind # "missing"
    /\ \A n1, n2 \in DOMAIN manager.registry : n1 # n2 => manager.registry[n1] # manager.registry[n2]
    /\ (last.op = "delete_database" /\ last.res = "ok")
         => disk.files[pre.manager.registry[last.a]] = NoDisk.files[last.a]
    /\ manager.registry = IF disk.registry_file.kind = "json" THEN disk.registry_file.data ELSE EmptyDict

\* C23 witness: a database whose files held data has just been deleted after
\* two other calls, and another entry remains.
C23_Witness ==
  /\ last.op = "delete_database" /\ last.res = "ok"
  /\ pre.disk.files[last.a].nodes.kind = "json"
  /\ manager.registry # EmptyDict
  /\ steps >= 3

\* C24: at startup a registry entry whose companion files exist but do not load
\* (a vertices or indexes file that is not parseable) is dropped from the
\* registry, and the rewritten registry file does not list it
C24_UnloadableEntryDropped ==
  last.op = "__init__" =>
    \A db_name \in DOMAIN pre.disk.registry_file.data :
      LET pair == pre.disk.files[pre.disk.registry_file.data[db_name]]
      IN (pair.nodes.kind \in {"bad", "binary"} \/ pair.indexes.kind \in {"bad", "binary"})
         => /\ db_name \notin DOMAIN manager.registry
            /\ db_name \notin DOMAIN disk.registry_file.data

\* C25: restore_database validates the backup before touching the target: when
\* the backup vertices file is missing or either backup file is not parseable,
\* the call raises and the target's files, the registry and the active instance
\* are as they were
C25_RestoreValidatesFirst ==
  (/\ last.op = "restore_database"
   /\ \/ pre.disk.files[last.b].nodes.kind # "json"
      \/ pre.disk.files[last.b].indexes.kind \notin {"json", "missing"})
  => /\ last.res # "ok"
     /\ disk = pre.disk
     /\ manager = pre.manager

C25_Witness ==
  /\ last.op = "restore_database" /\ last.res = "ValueError"
  /\ pre.manager.current_db = last.a
  /\ pre.manager.active_db_instance # NoInstance
  /\ pre.disk.files[last.b].nodes.kind = "json"
  /\ pre.disk.files[last.b].indexes.kind = "bad"
  /\ disk.files[manager.registry[last.a]].nodes.data # EmptyDict

\* C26: backup_database(x, f), then mutations of x, then restore_database(x, f)
\* leaves x with the vertex map, adjacency and index maps it had at the backup,
\* on disk and in the active instance when x is selected
C26_RestoreReturnsBackup ==
  LET Stored(pair) ==
        GraphDatabase(IF pair.nodes.kind = "json" THEN pair.nodes.data ELSE EmptyDict,
                      IF pair.indexes.kind = "json" THEN pair.indexes.data ELSE EmptyDict).db
  IN (/\ last.op = "restore_database" /\ last.res = "ok"
      /\ backed_up # EmptyDict
      /\ backed_up.db_name = last.a /\ backed_up.backup_file = last.b)
     => /\ Stored(disk.files[manager.registry[last.a]]) = Stored(backed_up.pair)
        /\ manager.current_db = last.a =>
             /\ manager.active_db_instance # NoInstance
             /\ manager.active_db_instance.db = Stored(backed_up.pair)

C26_Witness ==
  /\ last.op = "restore_database" /\ last.res = "ok"
  /\ backed_up # EmptyDict
  /\ backed_up.db_name = last.a /\ backed_up.backup_file = last.b
  /\ manager.current_db = last.a
  /\ pre.manager.active_db_instance.file = manager.registry[last.a]
  /\ pre.manager.active_db_instance.db # manager.active_db_instance.db
  /\ pre.disk.files[manager.registry[last.a]] # backed_up.pair
  /\ backed_up.pair.nodes.data # EmptyDict

\* C27: import_database in merge mode inserts each imported vertex whose
\* identity is new with its attributes, merges the imported attributes into a
\* vertex that exists (imported values win, the other attributes stay), writes
\* each imported adjacency entry whose target is in the merged store on both
\* endpoints with equal properties, and keeps every vertex and edge of the
\* target that the import does not mention
C27_MergeImport ==
  (last.op = "import_database" /\ last.res = "ok" /\ last.cs)
  => LET pair == pre.disk.files[pre.manager.registry[last.a]]
         target == IF pair.nodes.kind = "json" THEN pair.nodes.data ELSE EmptyDict
         imported == pre.disk.files[last.b].nodes.data
         result == disk.files[manager.registry[last.a]].nodes.data
         Mentioned(node_id, target_id) ==
           \/ node_id \in DOMAIN imported /\ target_id \in DOMAIN imported[node_id].edges
           \/ target_id \in DOMAIN imported /\ node_id \in DOMAIN imported[target_id].edges
     IN /\ DOMAIN result = DOMAIN target \cup DOMAIN imported
        /\ \A node_id \in DOMAIN imported \ DOMAIN target : result[node_id].value = imported[node_id].value
        /\ \A node_id \in DOMAIN imported \cap DOMAIN target :
             /\ DOMAIN result[node_id].value = DOMAIN target[node_id].value \cup DOMAIN imported[node_id].value
             /\ \A attr \in DOMAIN imported[node_id].value :
                  result[node_id].value[attr] = imported[node_id].value[attr]
             /\ \A attr \in DOMAIN target[node_id].value \ DOMAIN imported[node_id].value :
                  result[node_id].value[attr] = target[node_id].value[attr]
        /\ \A node_id \in DOMAIN imported : \A target_id \in DOMAIN imported[node_id].edges :
             target_id \in DOMAIN result =>
               /\ target_id \in DOMAIN result[node_id].edges
               /\ node_id \in DOMAIN result[target_id].edges
               /\ result[node_id].edges[target_id] = result[target_id].edges[node_id]
               /\ \/ result[node_id].edges[target_id] = imported[node_id].edges[target_id]
                  \/ /\ target_id \in DOMAIN imported
                     /\ node_id \in DOMAIN imported[target_id].edges
                     /\ result[node_id].edges[target_id] = imported[target_id].edges[node_id]
        /\ \A node_id \in DOMAIN target \ DOMAIN imported : result[node_id].value = target[node_id].value
        /\ \A node_id \in DOMAIN target : \A target_id \in DOMAIN target[node_id].edges :
             ~Mentioned(node_id, target_id) =>
               /\ target_id \in DOMAIN result[node_id].edges
               /\ result[node_id].edges[target_id] = target[node_id].edges[target_id]
        /\ \A node_id \in DOMAIN result : \A target_id \in DOMAIN result[node_id].edges :
             Mentioned(node_id, target_id) \/ (node_id \in DOMAIN target /\ target_id \in DOMAIN target[node_id].edges)
        /\ manager.current_db = last.a => manager.active_db_instance.db.nodes = result

\* a merge into the selected database that overrides an attribute, keeps another,
\* relabels an edge and keeps a vertex and an edge the file does not mention
C27_Witness ==
  /\ last.op = "import_database" /\ last.res = "ok" /\ last.cs
  /\ manager.current_db = last.a
  /\ LET target == pre.disk.files[pre.manager.registry[last.a]].nodes.data
         imported == pre.disk.files[last.b].nodes.data
         result == manager.active_db_instance.db.nodes
     IN /\ \E node_id \in DOMAIN target \cap DOMAIN imported :
             /\ target[node_id].value["name"] # imported[node_id].value["name"]
             /\ "age" \in DOMAIN result[node_id].value
        /\ \E node_id \in DOMAIN target \ DOMAIN imported :
             \E target_id \in DOMAIN target[node_id].edges : target_id \in DOMAIN imported
        /\ \E node_id \in DOMAIN imported : \E target_id \in DOMAIN imported[node_id].edges :
             /\ node_id \in DOMAIN target /\ target_id \in DOMAIN target[node_id].edges
             /\ target[node_id].edges[target_id] # result[node_id].edges[target_id]

\* C28: the data-model invariants hold after import_database, merging or
\* overwriting: when the target database and the imported pair each have index
\* maps that agree with the attribute values, symmetric adjacency, no identity
\* in an adjacency or index set that is not a vertex and no self-neighbour, so
\* has the resulting database
C28_ImportKeepsInvariants ==
  LET Stored(pair) ==
        GraphDatabase(IF pair.nodes.kind = "json" THEN pair.nodes.data ELSE EmptyDict,
                      IF pair.indexes.kind = "json" THEN pair.indexes.data ELSE EmptyDict).db
      Invariants(d) ==
        /\ \A a \in DOMAIN d.indexes :
             /\ \A k \in DOMAIN d.indexes[a] : \A v \in d.indexes[a][k] :
                  /\ v \in DOMAIN d.nodes
                  /\ a \in DOMAIN d.nodes[v].value
                  /\ str(d.nodes[v].value[a]) = k
             /\ \A v \in DOMAIN d.nodes :
                  a \in DOMAIN d.nodes[v].value =>
                    /\ str(d.nodes[v].value[a]) \in DOMAIN d.indexes[a]
                    /\ v \in d.indexes[a][str(d.nodes[v].value[a])]
        /\ \A a \in DOMAIN d.nodes : \A b \in DOMAIN d.nodes[a].edges :
             /\ b \in DOMAIN d.nodes
             /\ a \in DOMAIN d.nodes[b].edges
             /\ d.nodes[b].edges[a] = d.nodes[a].edges[b]
             /\ b # a
  IN (/\ last.op = "import_database" /\ last.res = "ok"
      /\ Invariants(Stored(pre.disk.files[pre.manager.registry[last.a]]))
      /\ Invariants(Stored(pre.disk.files[last.b])))
     => /\ Invariants(Stored(disk.files[manager.registry[last.a]]))
        /\ manager.current_db = last.a => Invariants(manager.active_db_instance.db)

\* C30: engine operations invoked through the HTTP routes never interleave:
\* when the requests being served concurrently have all been answered, the
\* adjacency is symmetric and references no missing vertex, and the database,
\* its files and the answers are those of the same calls made one after the
\* other in some order
C30_RequestsSerialize ==
  LET Whole(self, th) ==
        CASE th.op = "add_edge" -> add_edge(self, th.key1, th.key2, NoneV, NoneV)
          [] th.op = "delete_edge" -> delete_edge(self, th.key1, th.key2)
          [] th.op = "delete_node" -> delete_node(self, th.key1)
      Serial(t1, t2) ==
        LET r1 == Whole(save([db |-> pre, transaction |-> transaction, transaction_history |-> <<>>,
                              nodes_file |-> EmptyDict, indexes_file |-> EmptyDict, next_id |-> next_id]),
                        threads[t1])
            r2 == Whole(r1.self, threads[t2])
        IN /\ threads[t1].res = r1.res
           /\ threads[t2].res = r2.res
           /\ db = r2.self.db
           /\ nodes_file = r2.self.nodes_file
           /\ indexes_file = r2.self.indexes_file
      answered == {t \in 1..MaxThreads : threads[t].pc = "done"}
  IN (\A t \in 1..MaxThreads : threads[t].pc \in {"idle", "done"})
     => /\ \A a \in DOMAIN db.nodes : \A b \in DOMAIN db.nodes[a].edges :
             /\ b \in DOMAIN db.nodes
             /\ a \in DOMAIN db.nodes[b].edges
             /\ db.nodes[b].edges[a] = db.nodes[a].edges[b]
        /\ \A t1, t2 \in answered : (t1 # t2 /\ answered = {t1, t2}) => Serial(t1, t2) \/ Serial(t2, t1)

\* C31: commit_transaction in an active transaction with a non-empty snapshot
\* stack removes exactly the newest snapshot: the snapshots below it keep their
\* order and content, the live state and the companion files are unchanged, the
\* transaction stays active, and a successful vertex or edge mutation that
\* follows pushes the state it started from.
C31_CommitPopsNewestOnly ==
  [][/\ (/\ transaction = "True"
         /\ transaction_history # <<>>
         /\ last'.op = "commit_transaction")
        => (/\ last'.res = "ok"
            /\ transaction_history' = SubSeq(transaction_history, 1, Len(transaction_history) - 1)
            /\ UNCHANGED <<db, nodes_file, indexes_file, transaction>>)
     /\ (/\ last.op = "commit_transaction" /\ last.res = "ok" /\ last.depth > 0
         /\ last'.op \in Mutations /\ last'.res = "ok")
        => transaction_history' = Append(transaction_history, db)]_vars

\* C31 witness: a vertex has just been added after commit_transaction removed
\* the upper of two snapshots: the stack holds two again, and the lower one is
\* two vertices behind the upper one.
C31_Witness ==
  /\ last.op = "add_node" /\ last.res = "ok"
  /\ transaction = "True"
  /\ Len(transaction_history) = 2
  /\ transaction_history[2] = pre
  /\ Cardinality(DOMAIN transaction_history[2].nodes)
       = Cardinality(DOMAIN transaction_history[1].nodes) + 2
  /\ steps = 5

\* C32: create_index(a) on an attribute without an index adds index[a], whose
\* keys are exactly the strings of the values of a among the vertices and whose
\* set at each key is exactly the vertices holding a value of that string;
\* create_index on an indexed attribute and drop_index on an attribute without
\* an index raise and leave vertices and indexes as they are; drop_index(a)
\* removes index[a] and nothing else.
C32_IndexContract ==
  \A attribute \in Attrs :
    LET created == create_index(Self, attribute)
        dropped == drop_index(Self, attribute)
        holders == {id \in DOMAIN db.nodes : attribute \in DOMAIN db.nodes[id].value}
    IN IF attribute \notin DOMAIN db.indexes
       THEN /\ created.res = "ok"
            /\ created.self.db.nodes = db.nodes
            /\ DOMAIN created.self.db.indexes = DOMAIN db.indexes \cup {attribute}
            /\ \A other \in DOMAIN db.indexes : created.self.db.indexes[other] = db.indexes[other]
            /\ DOMAIN created.self.db.indexes[attribute]
                 = {str(db.nodes[id].value[attribute]) : id \in holders}
            /\ \A k \in DOMAIN created.self.db.indexes[attribute] :
                 created.self.db.indexes[attribute][k]
                   = {id \in holders : str(db.nodes[id].value[attribute]) = k}
            /\ dropped.res = "ValueError"
            /\ dropped.self.db = db
       ELSE /\ created.res = "ValueError"
            /\ created.self.db = db
            /\ dropped.res = "ok"
            /\ dropped.self.db.nodes = db.nodes
            /\ DOMAIN dropped.self.db.indexes = DOMAIN db.indexes \ {attribute}
            /\ \A other \in DOMAIN dropped.self.db.indexes :
                 dropped.self.db.indexes[other] = db.indexes[other]

\* C32 witness: create_index has just built an index with a key that two
\* vertices share, next to an index on another attribute.
C32_Witness ==
  /\ last.op = "create_index" /\ last.res = "ok"
  /\ Cardinality(DOMAIN db.indexes) = 2
  /\ \E a \in DOMAIN db.indexes : \E k \in DOMAIN db.indexes[a] :
       Cardinality(db.indexes[a][k]) = 2

\* C33: incremental index maintenance agrees with a rebuild: when index[a]
\* equals what drop_index(a) followed by create_index(a) would build, and
\* add_node or update_node then succeeds, index[a] again equals the rebuild from
\* the new vertices and none of its keys maps to an empty set.
C33_IncrementalEqualsRebuild ==
  [][\A a \in DOMAIN db.indexes :
       (/\ db.indexes[a] = create_index(drop_index(Self, a).self, a).self.db.indexes[a]
        /\ last'.op \in {"add_node", "update_node"} /\ last'.res = "ok")
       => (/\ db'.indexes[a] = create_index(drop_index(Self', a).self, a).self.db.indexes[a]
           /\ \A k \in DOMAIN db'.indexes[a] : db'.indexes[a][k] # {})]_vars

\* C34: update_node(id, partial) on a known id with a non-empty map of scalars
\* sets the attributes named in partial on vertex id and changes nothing else
\* of the vertex map: the other attributes and the adjacency of id and every
\* other vertex stay as they are. On an unknown id, an empty map or a
\* non-scalar value it raises and leaves vertices, indexes and the companion
\* files unchanged.
C34_UpdateNodeFrame ==
  \A key \in Ids, partial \in UpdateInputs :
    LET updated == update_node(Self, key, partial)
        nodes == updated.self.db.nodes
    IN IF \/ key \notin DOMAIN db.nodes
          \/ partial = EmptyDict
          \/ \E attr \in DOMAIN partial : partial[attr] = ListV
       THEN /\ updated.res \in {"KeyError", "ValueError"}
            /\ updated.self.db = db
            /\ updated.self.nodes_file = nodes_file
            /\ updated.self.indexes_file = indexes_file
       ELSE /\ updated.res = "ok"
            /\ DOMAIN nodes = DOMAIN db.nodes
            /\ \A id \in DOMAIN db.nodes \ {key} : nodes[id] = db.nodes[id]
            /\ nodes[key].edges = db.nodes[key].edges
            /\ DOMAIN nodes[key].value = DOMAIN db.nodes[key].value \cup DOMAIN partial
            /\ \A attr \in DOMAIN nodes[key].value :
                 nodes[key].value[attr] = IF attr \in DOMAIN partial THEN partial[attr]
                                          ELSE db.nodes[key].value[attr]

\* C34 witness: update_node has just given a new attribute to a vertex that
\* keeps another attribute and a neighbour.
C34_Witness ==
  /\ last.op = "update_node" /\ last.res = "ok"
  /\ Cardinality(DOMAIN db.nodes[last.a].value) = 2
  /\ DOMAIN pre.nodes[last.a].value = {"name"}
  /\ db.nodes[last.a].value["name"] = pre.nodes[last.a].value["name"]
  /\ Neighbors(db, last.a) # {}

\* C35: the stopped state is absorbing: once stop_transaction has succeeded,
\* every later begin_transaction, commit_transaction, rollback_transaction and
\* stop_transaction raises, the transaction never becomes active again, and no
\* later mutation pushes a snapshot. (Only stop_transaction sets the flag to
\* False.)
C35_StoppedIsAbsorbing ==
  [][/\ transaction = "False"
        => (/\ transaction' = "False"
            /\ transaction_history' = <<>>
            /\ last'.op \in {"begin_transaction", "commit_transaction",
                             "rollback_transaction", "stop_transaction"}
                 => (last'.res = "ValueError" /\ db' = db))
     /\ (transaction # "False" /\ transaction' = "False")
        => (last'.op = "stop_transaction" /\ last'.res = "ok")]_vars

\* C35 witness: begin_transaction has just been refused on an instance whose
\* transaction was stopped; the flag is still False and the stack empty.
C35_Witness ==
  /\ last.op = "begin_transaction" /\ last.res = "ValueError"
  /\ transaction = "False"
  /\ transaction_history = <<>>
  /\ nodes_file = db.nodes
  /\ steps >= 3

\* C36: snapshots are undone in LIFO order: from an active transaction with an
\* empty stack, after k successful vertex or edge mutations (k = 1, 2) and no
\* commit, the first rollback_transaction restores the state before the last
\* mutation, the k-th restores exactly the state the mutations started from,
\* live and in the companion files, and one more rollback changes nothing.
C36_RollbackIsLIFO ==
  (transaction = "True" /\ transaction_history = <<>>) =>
    LET calls == [op : {"add_node"}, key1 : {0}, key2 : {0}, value : {[a \in {"name"} |-> Al], [a \in {"age"} |-> IntV(1)]}]
                 \cup [op : {"update_node", "delete_node"}, key1 : Ids, key2 : {0}, value : {[a \in {"name"} |-> Bo]}]
                 \cup {c \in [op : {"add_edge", "delete_edge"}, key1 : Ids, key2 : Ids, value : {EmptyDict}] :
                         c.key1 < c.key2}
        Apply(self, c) ==
          CASE c.op = "add_node" -> add_node(self, c.value)
            [] c.op = "update_node" -> update_node(self, c.key1, c.value)
            [] c.op = "delete_node" -> delete_node(self, c.key1)
            [] c.op = "add_edge" -> add_edge(self, c.key1, c.key2, NoneV, NoneV)
            [] c.op = "delete_edge" -> delete_edge(self, c.key1, c.key2)
        Undone(from, to) ==
          /\ to.res = "ok"
          /\ to.self.db = from.db
          /\ to.self.transaction_history = from.transaction_history
          /\ to.self.transaction = "True"
          /\ GraphDatabase(to.self.nodes_file, to.self.indexes_file).db = from.db
    IN \A c1 \in calls :
         LET m1 == Apply(Self, c1)
             r1 == rollback_transaction(m1.self)
             again == rollback_transaction(r1.self)
         IN m1.res = "ok" =>
              /\ Undone(Self, r1)
              /\ again.res = "ok" /\ again.self = r1.self
              /\ \A c2 \in calls :
                   LET m2 == Apply(m1.self, c2)
                       r2 == rollback_transaction(m2.self)
                       r3 == rollback_transaction(r2.self)
                       r4 == rollback_transaction(r3.self)
                   IN m2.res = "ok" =>
                        /\ Undone(m1.self, r2)
                        /\ Undone(Self, r3)
                        /\ r4.res = "ok" /\ r4.self = r3.self

\* C36 witness: the second of two rollbacks has just popped the last snapshot
\* of an active transaction: it removed the vertex added first, the vertex
\* added after it is already gone, and the companion files hold the result.
C36_Witness ==
  /\ last.op = "rollback_transaction" /\ last.res = "ok"
  /\ last.depth = 1
  /\ transaction = "True"
  /\ transaction_history = <<>>
  /\ next_id - 1 \notin DOMAIN db.nodes
  /\ DOMAIN pre.nodes = DOMAIN db.nodes \cup {next_id - 1}
  /\ nodes_file = db.nodes
  /\ steps = 5

\* C37: after any sequence of vertex and index mutations, every well-formed
\* query, with case_sensitive false or true, completes without a failed lookup
\* of a vertex and returns only identities present in the vertex map.
C37_QueryNeverMissesVertex ==
  (last.op = "query" /\ ParsedQueries[last.q].ok) =>
    /\ last.res # "KeyError"
    /\ set(last.out) \subseteq DOMAIN db.nodes

\* C38: with an index on name, find_by_name(s) returns every vertex whose name
\* equals s ignoring letter case, whether it was added before or after
\* create_index("name"); in particular it returns V for the name of V itself.
C38_FindByNameIndexed ==
  (last.op = "find_by_name" /\ "name" \in DOMAIN db.indexes) =>
    /\ last.res = "ok"
    /\ \A id \in DOMAIN db.nodes :
         LET node_name == Get(db.nodes[id].value, "name")
         IN (node_name.kind = "str" /\ lower(node_name.s) = lower(last.q))
              => id \in set(last.out)

\* C39: immediately after create_database(n) succeeds, database n has no
\* vertices and no indexes, whatever catalog operations came before: opening
\* it gives an empty vertex map and no index.
C39_CreatedDatabaseIsEmpty ==
  (last.op = "create_database" /\ last.res = "ok") =>
    GraphDatabase__init__(disk.files, manager.registry[last.a]).instance.db
      = [nodes |-> EmptyDict, indexes |-> EmptyDict]

\* C40: in the command shell, after restore_db or import_db on the selected
\* database, the next mutation is applied on top of the restored or imported
\* state: an `add` that follows leaves in the vertices file every vertex the
\* restore or import put there, unchanged, plus the new vertex.
C40_ShellSeesRestoredState ==
  [][(/\ last.op \in {"restore_database", "import_database"} /\ last.res = "ok"
      /\ last.a = manager.current_db
      /\ cli_db.instance # NoInstance
      /\ cli_db.instance.file = manager.registry[manager.current_db]
      /\ last'.op = "add_node" /\ last'.res = "ok")
     => LET restored == disk.files[cli_db.instance.file].nodes.data
            written == disk'.files[cli_db.instance.file].nodes.data
        IN /\ DOMAIN written = DOMAIN restored \cup {next_id'}
           /\ \A id \in DOMAIN restored : written[id] = restored[id]]_vars

====
